---- MODULE Spec2Model ----
(***************************************************************************)
(* State-machine model of the touchfeets web application: the generate     *)
(* handler (POST /api/generate), the quota ledger (lib/entitlements.ts),   *)
(* the Redis helpers (lib/redis.ts), the Stripe webhook handler, the job   *)
(* status and download endpoints.  Every awaited call is one atomic step,  *)
(* so concurrent requests interleave exactly at the awaits of the code.    *)
(***************************************************************************)
EXTENDS Integers, Sequences, FiniteSets, TLC

(***************************************************************************)
(* Bounds of the model.                                                    *)
(***************************************************************************)
MaxJobs == 2
MaxDeliveries == 2
MaxDownloads == 1
MixJobs == 1
MixDeliveries == 1
MaxInFlight == 2
MaxMonth == 2
MaxRedisFaults == 1
MaxPolls == 1
MaxRejects == 1
MaxEventFaults == 1
MaxUploads == 2
MaxUsage == 1
MaxBadDeliveries == 1
MaxFlows == 2
MaxTicks == 2
MaxResets == 1

(***************************************************************************)
(* Program constants.                                                      *)
(***************************************************************************)
FreeMonthlyQuota == 5
Basic50Quota == 50
Plus200Quota == 200
Pro1000Quota == 1000
RateMax == 10
MaxPromptVariant == 200

Users == {"u1", "u2"}
Months == 1..MaxMonth
JobIds == 1..MaxJobs
Deliveries == 1..MaxDeliveries
Downloads == 1..MaxDownloads
Polls == 1..MaxPolls
Uploads == 1..MaxUploads
UsageReqs == 1..MaxUsage
Flows == 1..MaxFlows
TickIds == 1..MaxTicks

Terminal == {"COMPLETED", "BLOCKED", "FAILED"}

\* PLAN_DEFAULTS: monthly quota and watermark policy per tier.
PLAN_DEFAULTS ==
  [ FREE     |-> [monthlyQuota |-> FreeMonthlyQuota, watermarkExempt |-> FALSE],
    BASIC_50 |-> [monthlyQuota |-> Basic50Quota,     watermarkExempt |-> TRUE],
    PLUS_200 |-> [monthlyQuota |-> Plus200Quota,     watermarkExempt |-> TRUE],
    PRO_1000 |-> [monthlyQuota |-> Pro1000Quota,     watermarkExempt |-> TRUE] ]

\* The price ids configured in the environment (PRICE_ID_BASIC_50, ...).
PriceIdBasic == "price_basic"
PriceIdPlus == "price_plus"
PriceIdPro == "price_pro"

planFromStripePriceId(priceId) ==
  IF priceId = PriceIdBasic THEN "BASIC_50"
  ELSE IF priceId = PriceIdPlus THEN "PLUS_200"
  ELSE IF priceId = PriceIdPro THEN "PRO_1000"
  ELSE "FREE"

Min(a, b) == IF a < b THEN a ELSE b

\* A Quota row (unique per userId, monthUtc) and the absent row.
NoRow == [exists |-> FALSE, free |-> 0, paid |-> 0, exempt |-> FALSE]
Row(f, p, x) == [exists |-> TRUE, free |-> f, paid |-> p, exempt |-> x]

\* The value of the local variable q of a handler: the row it read (with its
\* primary key, here the month of the row) or null.
NoQ == [exists |-> FALSE, month |-> 0, free |-> 0, paid |-> 0, exempt |-> FALSE]
QOf(m, r) == [exists |-> r.exists, month |-> m, free |-> r.free, paid |-> r.paid,
              exempt |-> r.exempt]

\* An ImageJob row that has not been created yet, and a freshly created one.
\* No response yet; no poll request; no rejected generate request.
NoResponse == [status |-> 0, id |-> 0]
NoJob == [user |-> "", status |-> "NONE", blockedReason |-> "null",
          outputBlobUrl |-> FALSE, completedAt |-> FALSE]
NoPoll == [pc |-> "idle", user |-> "", job |-> 0, res |-> "none", body |-> NoJob]
NoReject == [n |-> 0, status |-> 0, user |-> "", valid |-> FALSE]
\* No upload request; no file field in the form; no usage request; no refused
\* webhook request.
NoFile == [present |-> FALSE, type |-> "", size |-> 0]
NoUpload == [pc |-> "idle", session |-> "", file |-> NoFile, res |-> 0, stored |-> FALSE]
NoUsage == [pc |-> "idle", user |-> "", tier |-> "FREE", month |-> 0, res |-> 0,
            created |-> FALSE]
NoHookReject == [n |-> 0, status |-> 0, sig |-> ""]
\* No poll request of the widget in flight; the widget as it is mounted.
NoTick == [job |-> 0, res |-> "free"]
NoWidget ==
  [mounted |-> TRUE, file |-> FALSE, busy |-> FALSE, phase |-> "idle", jobId |-> 0,
   pollRef |-> 0, timers |-> {}, flows |-> [f \in 1..MaxFlows |-> "idle"],
   claimed |-> {}, ticks |-> [k \in 1..MaxTicks |-> NoTick], shown |-> {},
   late |-> FALSE, resets |-> 0]

VARIABLES
  month,        \* the current UTC month key (monthUtc())
  env,          \* process.env: which optional services are configured
  load,         \* the requests the environment sends: how many of each kind
  quota,        \* Quota table: [Users \X Months -> row]
  jobs,         \* ImageJob table: [JobIds -> row]
  events,       \* GenerationEvent table: [JobIds -> sequence of steps]
  rl,           \* Redis rate-limit keys: [Users -> [count, ttl, win]], win = window number
  redisFaults,  \* number of Redis calls that have thrown so far
  gpc,          \* generate handler of job j: position in POST
  gq,           \* generate handler of job j: local q of decrementQuota
  gcount,       \* generate handler of job j: local count of rateLimitWindow
  ghost,        \* history of job j: what its handler observed and did
  subs,         \* Subscription table, keyed by stripeSubscriptionId
  webhookEvents,\* WebhookEvent table: [EventIds -> status], unique stripeEventId
  locks,        \* Redis idempotency keys stripe:event:<id> that are set
  auditLog,     \* number of ENTITLEMENTS_SYNC rows in AuditLog
  hook,         \* webhook delivery h: [pc, ev, user, q, res]
  applied,      \* per event id: runs of applyEntitlementsForSubscription
  dl,           \* download request d: [pc, user, job, res, fetched]
  http,         \* generate handler of job j: the response it returned
  evFaults,     \* per job: GenerationEvent writes that failed and were swallowed
  poll,         \* GET /api/jobs/[id] request p: [pc, user, job, res, body]
  rej,          \* generate requests answered 401 / 400: [n, status, user, valid]
  up,           \* POST /api/upload-url request: [pc, session, file, res, stored]
  blobs,        \* number of objects put under uploads/ in the blob store
  usage,        \* GET /api/usage request: [pc, user, tier, month, res, created]
  hookRej,      \* webhook requests refused before the event is read: [n, status, sig]
  widget        \* the UploadWidget in the browser: its state, timers and requests

genVars == <<jobs, events, gpc, gq, gcount, ghost, http, evFaults>>
hookVars == <<subs, webhookEvents, locks, auditLog, hook, applied>>
sideVars == <<up, blobs, usage, hookRej, widget>>
apiVars == <<poll, rej, sideVars>>
vars == <<month, env, load, quota, rl, redisFaults, genVars, hookVars, dl, apiVars>>

NoGhost == [zeroAtCreate |-> FALSE, zeroAtCheck |-> FALSE, rlRejected |-> FALSE,
            decs |-> 0, modelCalls |-> 0, uploads |-> 0, exemptAtCompletion |-> FALSE,
            rlThrew |-> FALSE, rlCount |-> 0, rlWin |-> 0]

\* Number of handlers that have started and not yet answered.
GenInFlight == Cardinality({j \in JobIds : gpc[j] \notin {"idle", "done"}})
HookInFlight == Cardinality({h \in Deliveries : hook[h].pc \notin {"idle", "done"}})
DlInFlight == Cardinality({d \in Downloads : dl[d].pc \notin {"idle", "done"}})
PollInFlight == Cardinality({p \in Polls : poll[p].pc \notin {"idle", "done"}})
UpInFlight == Cardinality({u \in Uploads : up[u].pc \notin {"idle", "done"}})
UsageInFlight == Cardinality({r \in UsageReqs : usage[r].pc \notin {"idle", "done"}})
InFlight ==
  GenInFlight + HookInFlight + DlInFlight + PollInFlight + UpInFlight + UsageInFlight

\* getRedis(): null unless both Upstash variables are set.
getRedis == env.redis

\* A Redis call may throw (transient error); the number of such faults is bounded.
RedisMayThrow == redisFaults < MaxRedisFaults

\* return NextResponse.json({ id: jobId }): the handler of job j ends, and its
\* local variables with it.
Respond(j) ==
  /\ gpc' = [gpc EXCEPT ![j] = "done"]
  /\ gq' = [gq EXCEPT ![j] = NoQ]
  /\ gcount' = [gcount EXCEPT ![j] = 0]
  /\ http' = [http EXCEPT ![j] = [status |-> 200, id |-> j]]

\* The steps without the i-th one.
dropStep(steps, i) == SubSeq(steps, 1, i - 1) \o SubSeq(steps, i + 1, Len(steps))

\* Number of GenerationEvent writes that have failed so far.
RECURSIVE SumUpTo(_, _)
SumUpTo(f, n) == IF n = 0 THEN 0 ELSE f[n] + SumUpTo(f, n - 1)
EventFaults == SumUpTo(evFaults, MaxJobs)

\* recordEvent(jobId, step), for the consecutive calls of one handler step:
\* each create appends the step to the job's trail; a create that throws is
\* swallowed (best-effort) and leaves no row.
recordEvent(j, steps) ==
  \/ /\ events' = [events EXCEPT ![j] = @ \o steps]
     /\ UNCHANGED evFaults
  \/ /\ EventFaults < load.evf
     /\ \E i \in 1..Len(steps) : events' = [events EXCEPT ![j] = @ \o dropStep(steps, i)]
     /\ evFaults' = [evFaults EXCEPT ![j] = @ + 1]

(***************************************************************************)
(* POST /api/generate                                                      *)
(***************************************************************************)

\* Session and body are valid: create the job in QUEUED and record "queued".
StartGenerate(u) ==
  /\ InFlight < MaxInFlight
  /\ Cardinality({j \in JobIds : gpc[j] # "idle"}) < load.gen
  /\ \E j \in JobIds :
       /\ gpc[j] = "idle"
       /\ \A i \in JobIds : i < j => gpc[i] # "idle"
       /\ jobs' = [jobs EXCEPT ![j] = [NoJob EXCEPT !.user = u, !.status = "QUEUED"]]
       /\ recordEvent(j, <<"queued">>)
       /\ gpc' = [gpc EXCEPT ![j] = "rl_incr"]
       /\ ghost' = [ghost EXCEPT ![j].zeroAtCreate =
                      /\ quota[<<u, month>>].exists
                      /\ quota[<<u, month>>].free = 0
                      /\ quota[<<u, month>>].paid = 0]
  /\ UNCHANGED <<apiVars, http, month, env, load, quota, rl, redisFaults, gq, gcount,
                 hookVars, dl>>

\* rateLimitWindow, first part: no client -> allowed; else INCR (or throw).
RateLimitIncr(j) ==
  /\ gpc[j] = "rl_incr"
  /\ LET u == jobs[j].user IN
     \/ /\ ~getRedis
        /\ gpc' = [gpc EXCEPT ![j] = "q_find"]
        /\ UNCHANGED <<rl, redisFaults, gcount, ghost>>
     \/ /\ getRedis
        /\ rl[u].count < RateMax + MaxJobs
        /\ rl' = [rl EXCEPT ![u].count = @ + 1]
        /\ gcount' = [gcount EXCEPT ![j] = rl[u].count + 1]
        /\ ghost' = [ghost EXCEPT ![j].rlCount = rl[u].count + 1, ![j].rlWin = rl[u].win]
        /\ gpc' = [gpc EXCEPT ![j] = IF rl[u].count + 1 = 1 THEN "rl_expire" ELSE "rl_ttl"]
        /\ UNCHANGED redisFaults
     \/ /\ getRedis
        /\ RedisMayThrow
        /\ redisFaults' = redisFaults + 1
        /\ ghost' = [ghost EXCEPT ![j].rlThrew = TRUE]
        /\ gpc' = [gpc EXCEPT ![j] = "q_find"]
        /\ UNCHANGED <<rl, gcount>>
  /\ UNCHANGED <<apiVars, http, evFaults, month, env, load, quota, jobs, events, gq,
                 hookVars, dl>>

\* rateLimitWindow: EXPIRE after the first INCR of a window (or throw).
RateLimitExpire(j) ==
  /\ gpc[j] = "rl_expire"
  /\ LET u == jobs[j].user IN
     \/ /\ rl' = [rl EXCEPT ![u].ttl = (rl[u].count > 0)]
        /\ gpc' = [gpc EXCEPT ![j] = "rl_ttl"]
        /\ UNCHANGED <<redisFaults, ghost>>
     \/ /\ RedisMayThrow
        /\ redisFaults' = redisFaults + 1
        /\ ghost' = [ghost EXCEPT ![j].rlThrew = TRUE]
        /\ gpc' = [gpc EXCEPT ![j] = "q_find"]
        /\ UNCHANGED rl
  /\ UNCHANGED <<apiVars, http, evFaults, month, env, load, quota, jobs, events, gq,
                 gcount, hookVars, dl>>

\* Mutant: the limit is one too high.
rlAllowed_OffByOne(count) == count <= RateMax + 1

\* allowed: count <= max, with max = 10 for generate requests.
rlAllowed(count) == count <= RateMax

\* Mutant: a Redis error in the TTL call rejects the request.
RateLimitTtl_FailClosed(j) ==
  /\ gpc[j] = "rl_ttl"
  /\ \/ /\ gpc' = [gpc EXCEPT ![j] = IF rlAllowed(gcount[j]) THEN "q_find" ELSE "rl_reject"]
        /\ ghost' = [ghost EXCEPT ![j].rlRejected = ~rlAllowed(gcount[j])]
        /\ UNCHANGED redisFaults
     \/ /\ RedisMayThrow
        /\ redisFaults' = redisFaults + 1
        /\ gpc' = [gpc EXCEPT ![j] = "rl_reject"]
        /\ ghost' = [ghost EXCEPT ![j].rlThrew = TRUE]
  /\ UNCHANGED <<apiVars, http, evFaults, month, env, load, quota, jobs, events, rl, gq,
                 gcount, hookVars, dl>>

\* rateLimitWindow: TTL, then allowed = count <= max (or throw: fail open).
RateLimitTtl(j) ==
  /\ gpc[j] = "rl_ttl"
  /\ \/ /\ gpc' = [gpc EXCEPT ![j] = IF rlAllowed(gcount[j]) THEN "q_find" ELSE "rl_reject"]
        /\ ghost' = [ghost EXCEPT ![j].rlRejected = ~rlAllowed(gcount[j])]
        /\ UNCHANGED redisFaults
     \/ /\ RedisMayThrow
        /\ redisFaults' = redisFaults + 1
        /\ gpc' = [gpc EXCEPT ![j] = "q_find"]
        /\ ghost' = [ghost EXCEPT ![j].rlThrew = TRUE]
  /\ UNCHANGED <<apiVars, http, evFaults, month, env, load, quota, jobs, events, rl, gq,
                 gcount, hookVars, dl>>

\* Mutant: the job is marked RATE_LIMITED and the handler goes on (no return).
MarkRateLimited_GoesOn(j) ==
  /\ gpc[j] = "rl_reject"
  /\ jobs' = [jobs EXCEPT ![j].status = "FAILED", ![j].blockedReason = "RATE_LIMITED"]
  /\ recordEvent(j, <<"failed">>)
  /\ gpc' = [gpc EXCEPT ![j] = "q_find"]
  /\ UNCHANGED <<apiVars, http, month, env, load, quota, rl, redisFaults, gq, gcount,
                 ghost, hookVars, dl>>

\* !rl.allowed: the job is marked FAILED / RATE_LIMITED and the handler answers.
MarkRateLimited(j) ==
  /\ gpc[j] = "rl_reject"
  /\ jobs' = [jobs EXCEPT ![j].status = "FAILED", ![j].blockedReason = "RATE_LIMITED"]
  /\ recordEvent(j, <<"failed">>)
  /\ Respond(j)
  /\ UNCHANGED <<apiVars, month, env, load, quota, rl, redisFaults, ghost, hookVars, dl>>

(***************************************************************************)
(* decrementQuota(userId), called from the generate handler                *)
(***************************************************************************)

\* monthUtc(): the current month key.
monthUtc == month

\* Mutant: off by one, an empty free allowance is still consumed.
decrementBranch_OffByOne(q) ==
  IF q.paid > 0 THEN "q_dec_paid"
  ELSE IF q.free >= 0 THEN "q_dec_free"
  ELSE "q_fail"

\* The branch decrementQuota takes on the row q it read.
decrementBranch(q) ==
  IF q.paid > 0 THEN "q_dec_paid"
  ELSE IF q.free > 0 THEN "q_dec_free"
  ELSE "q_fail"

\* Mutant: read-modify-write, the handler writes the value it read minus one.
decrement_Stale(cur, read) == read - 1

\* { decrement: 1 }: the data store subtracts from the value the row holds at
\* the time of the update (cur), not from the value the handler read (read).
decrement(cur, read) == cur - 1

\* getOrCreateQuota: findUnique on (userId, monthUtc).
QuotaFind(j) ==
  /\ gpc[j] = "q_find"
  /\ LET u == jobs[j].user
         r == quota[<<u, monthUtc>>]
     IN /\ gq' = [gq EXCEPT ![j] = QOf(monthUtc, r)]
        /\ gpc' = [gpc EXCEPT ![j] = IF r.exists THEN decrementBranch(r) ELSE "q_create"]
        /\ ghost' = [ghost EXCEPT ![j].zeroAtCheck = r.exists /\ r.free = 0 /\ r.paid = 0]
  /\ UNCHANGED <<apiVars, http, evFaults, month, env, load, quota, jobs, events, rl,
                 redisFaults, gcount, hookVars, dl>>

\* getOrCreateQuota: create the row; the unique index (userId, monthUtc) makes
\* the create throw when another request created it in between.
QuotaCreate(j) ==
  /\ gpc[j] = "q_create"
  /\ LET u == jobs[j].user
         m == gq[j].month
         fresh == Row(PLAN_DEFAULTS["FREE"].monthlyQuota, 0, FALSE)
     IN IF quota[<<u, m>>].exists
        THEN /\ gpc' = [gpc EXCEPT ![j] = "q_fail"]
             /\ UNCHANGED <<quota, gq>>
        ELSE /\ quota' = [quota EXCEPT ![<<u, m>>] = fresh]
             /\ gq' = [gq EXCEPT ![j] = QOf(m, fresh)]
             /\ gpc' = [gpc EXCEPT ![j] = decrementBranch(fresh)]
  /\ UNCHANGED <<apiVars, http, evFaults, month, env, load, jobs, events, rl,
                 redisFaults, gcount, ghost, hookVars, dl>>

\* prisma.quota.update({ where: { id: q.id }, data: { ...: { decrement: 1 } } })
QuotaDecrement(j) ==
  /\ gpc[j] \in {"q_dec_paid", "q_dec_free"}
  /\ LET k == <<jobs[j].user, gq[j].month>> IN
       quota' = IF gpc[j] = "q_dec_paid"
                THEN [quota EXCEPT ![k].paid = decrement(quota[k].paid, gq[j].paid)]
                ELSE [quota EXCEPT ![k].free = decrement(quota[k].free, gq[j].free)]
  /\ ghost' = [ghost EXCEPT ![j].decs = @ + 1]
  /\ gpc' = [gpc EXCEPT ![j] = "processing"]
  /\ UNCHANGED <<apiVars, http, evFaults, month, env, load, jobs, events, rl,
                 redisFaults, gq, gcount, hookVars, dl>>

\* Mutant: the handler answers without marking the job.
MarkQuotaExceeded_NoWrite(j) ==
  /\ gpc[j] = "q_fail"
  /\ recordEvent(j, <<"failed">>)
  /\ Respond(j)
  /\ UNCHANGED <<apiVars, month, env, load, quota, jobs, rl, redisFaults, ghost, hookVars,
                 dl>>

\* catch around decrementQuota: whatever it threw, FAILED / QUOTA_EXCEEDED.
MarkQuotaExceeded(j) ==
  /\ gpc[j] = "q_fail"
  /\ jobs' = [jobs EXCEPT ![j].status = "FAILED", ![j].blockedReason = "QUOTA_EXCEEDED"]
  /\ recordEvent(j, <<"failed">>)
  /\ Respond(j)
  /\ UNCHANGED <<apiVars, month, env, load, quota, rl, redisFaults, ghost, hookVars, dl>>

(***************************************************************************)
(* POST /api/generate, after the quota decrement                           *)
(***************************************************************************)

\* Mutant: the handler goes on without writing PROCESSING.
MoveToProcessing_NoWrite(j) ==
  /\ gpc[j] = "processing"
  /\ recordEvent(j, <<"processing">>)
  /\ gpc' = [gpc EXCEPT ![j] = "fetch"]
  /\ UNCHANGED <<apiVars, http, month, env, load, quota, jobs, rl, redisFaults, gq,
                 gcount, ghost, hookVars, dl>>

MoveToProcessing(j) ==
  /\ gpc[j] = "processing"
  /\ jobs' = [jobs EXCEPT ![j].status = "PROCESSING"]
  /\ recordEvent(j, <<"processing">>)
  /\ gpc' = [gpc EXCEPT ![j] = "fetch"]
  /\ UNCHANGED <<apiVars, http, month, env, load, quota, rl, redisFaults, gq, gcount,
                 ghost, hookVars, dl>>

\* fetch(body.inputUrl): the input bytes arrive, or the fetch fails / is not ok.
FetchInput(j) ==
  /\ gpc[j] = "fetch"
  /\ \/ /\ gpc' = [gpc EXCEPT ![j] = "gemini"]
        /\ recordEvent(j, <<"download_input_start", "download_input_success">>)
     \/ /\ gpc' = [gpc EXCEPT ![j] = "catch"]
        /\ recordEvent(j, <<"download_input_start">>)
  /\ UNCHANGED <<apiVars, http, month, env, load, quota, jobs, rl, redisFaults, gq,
                 gcount, ghost, hookVars, dl>>

\* Mutant: a model error is retried.
CallGemini_Retries(j) ==
  /\ gpc[j] = "gemini"
  /\ ghost' = [ghost EXCEPT ![j].modelCalls = @ + 1]
  /\ \/ /\ gpc' = [gpc EXCEPT ![j] = IF env.blobToken THEN "put" ELSE "no_token"]
        /\ recordEvent(j, <<"call_gemini_start", "call_gemini_success">>)
     \/ /\ gpc' = [gpc EXCEPT ![j] = "blocked"]
        /\ recordEvent(j, <<"call_gemini_start">>)
     \/ /\ gpc' = [gpc EXCEPT ![j] = IF ghost[j].modelCalls = 0 THEN "gemini"
                                    ELSE "model_error"]
        /\ recordEvent(j, <<"call_gemini_start">>)
  /\ UNCHANGED <<apiVars, http, month, env, load, quota, jobs, rl, redisFaults, gq,
                 gcount, hookVars, dl>>

\* generateStyledJesusFeet: an image, a SafetyBlockedError or another error;
\* with an image, the BLOB_READ_WRITE_TOKEN check follows without an await.
CallGemini(j) ==
  /\ gpc[j] = "gemini"
  /\ ghost' = [ghost EXCEPT ![j].modelCalls = @ + 1]
  /\ \/ /\ gpc' = [gpc EXCEPT ![j] = IF env.blobToken THEN "put" ELSE "no_token"]
        /\ recordEvent(j, <<"call_gemini_start", "call_gemini_success">>)
     \/ /\ gpc' = [gpc EXCEPT ![j] = "blocked"]
        /\ recordEvent(j, <<"call_gemini_start">>)
     \/ /\ gpc' = [gpc EXCEPT ![j] = "model_error"]
        /\ recordEvent(j, <<"call_gemini_start">>)
  /\ UNCHANGED <<apiVars, http, month, env, load, quota, jobs, rl, redisFaults, gq,
                 gcount, hookVars, dl>>

\* Mutant: the safety-blocked path writes BLOCKED without recording the step.
MarkBlocked_NoEvent(j) ==
  /\ gpc[j] = "blocked"
  /\ jobs' = [jobs EXCEPT ![j].status = "BLOCKED", ![j].blockedReason = "SAFETY"]
  /\ Respond(j)
  /\ UNCHANGED <<apiVars, month, env, load, quota, rl, redisFaults, ghost, hookVars, dl,
                 events, evFaults>>

MarkBlocked(j) ==
  /\ gpc[j] = "blocked"
  /\ jobs' = [jobs EXCEPT ![j].status = "BLOCKED", ![j].blockedReason = "SAFETY"]
  /\ recordEvent(j, <<"call_gemini_safety_blocked">>)
  /\ Respond(j)
  /\ UNCHANGED <<apiVars, month, env, load, quota, rl, redisFaults, ghost, hookVars, dl>>

\* Mutant: a model error is stored with the status of a safety rejection.
MarkModelError_AsBlocked(j) ==
  /\ gpc[j] = "model_error"
  /\ jobs' = [jobs EXCEPT ![j].status = "BLOCKED", ![j].blockedReason = "MODEL_ERROR"]
  /\ recordEvent(j, <<"failed">>)
  /\ Respond(j)
  /\ UNCHANGED <<apiVars, month, env, load, quota, rl, redisFaults, ghost, hookVars, dl>>

MarkModelError(j) ==
  /\ gpc[j] = "model_error"
  /\ jobs' = [jobs EXCEPT ![j].status = "FAILED", ![j].blockedReason = "MODEL_ERROR"]
  /\ recordEvent(j, <<"failed">>)
  /\ Respond(j)
  /\ UNCHANGED <<apiVars, month, env, load, quota, rl, redisFaults, ghost, hookVars, dl>>

\* Mutant: the unit taken from the free allowance is given back on this failure.
MarkUploadNotConfigured_Refunds(j) ==
  /\ gpc[j] = "no_token"
  /\ jobs' = [jobs EXCEPT ![j].status = "FAILED",
                          ![j].blockedReason = "UPLOAD_NOT_CONFIGURED"]
  /\ quota' = [quota EXCEPT ![<<jobs[j].user, gq[j].month>>].free = @ + 1]
  /\ recordEvent(j, <<"failed">>)
  /\ Respond(j)
  /\ UNCHANGED <<apiVars, month, env, load, rl, redisFaults, ghost, hookVars, dl>>

\* No BLOB_READ_WRITE_TOKEN: FAILED / UPLOAD_NOT_CONFIGURED and the answer.
MarkUploadNotConfigured(j) ==
  /\ gpc[j] = "no_token"
  /\ jobs' = [jobs EXCEPT ![j].status = "FAILED",
                          ![j].blockedReason = "UPLOAD_NOT_CONFIGURED"]
  /\ recordEvent(j, <<"failed">>)
  /\ Respond(j)
  /\ UNCHANGED <<apiVars, month, env, load, quota, rl, redisFaults, ghost, hookVars, dl>>

\* Mutant: the output URL is stored on the job as soon as the upload returns.
UploadOutput_StoresUrl(j) ==
  /\ gpc[j] = "put"
  /\ \/ /\ gpc' = [gpc EXCEPT ![j] = "complete"]
        /\ ghost' = [ghost EXCEPT ![j].uploads = @ + 1]
        /\ jobs' = [jobs EXCEPT ![j].outputBlobUrl = TRUE]
        /\ recordEvent(j, <<"upload_output_start", "upload_output_success">>)
     \/ /\ gpc' = [gpc EXCEPT ![j] = "catch"]
        /\ recordEvent(j, <<"upload_output_start">>)
        /\ UNCHANGED <<ghost, jobs>>
  /\ UNCHANGED <<apiVars, http, month, env, load, quota, rl, redisFaults, gq,
                 gcount, hookVars, dl>>

\* put(key, bytes): the output is stored, or the upload throws.
UploadOutput(j) ==
  /\ gpc[j] = "put"
  /\ \/ /\ gpc' = [gpc EXCEPT ![j] = "complete"]
        /\ ghost' = [ghost EXCEPT ![j].uploads = @ + 1]
        /\ recordEvent(j, <<"upload_output_start", "upload_output_success">>)
     \/ /\ gpc' = [gpc EXCEPT ![j] = "catch"]
        /\ recordEvent(j, <<"upload_output_start">>)
        /\ UNCHANGED ghost
  /\ UNCHANGED <<apiVars, http, month, env, load, quota, jobs, rl, redisFaults, gq,
                 gcount, hookVars, dl>>

\* Mutant: COMPLETED is written, then the rest of the try block throws.
MarkCompleted_ThenThrows(j) ==
  /\ gpc[j] = "complete"
  /\ jobs' = [jobs EXCEPT ![j].status = "COMPLETED", ![j].outputBlobUrl = TRUE,
                          ![j].completedAt = TRUE]
  /\ recordEvent(j, <<"completed">>)
  /\ gpc' = [gpc EXCEPT ![j] = "catch"]
  /\ UNCHANGED <<apiVars, http, month, env, load, quota, rl, redisFaults, gq, gcount,
                 ghost, hookVars, dl>>

MarkCompleted(j) ==
  /\ gpc[j] = "complete"
  /\ jobs' = [jobs EXCEPT ![j].status = "COMPLETED", ![j].outputBlobUrl = TRUE,
                          ![j].completedAt = TRUE]
  /\ recordEvent(j, <<"completed">>)
  /\ ghost' = [ghost EXCEPT ![j].exemptAtCompletion =
                  quota[<<jobs[j].user, month>>].exists /\ quota[<<jobs[j].user, month>>].exempt]
  /\ Respond(j)
  /\ UNCHANGED <<apiVars, month, env, load, quota, rl, redisFaults, hookVars, dl>>

\* Mutant: the outer catch marks the job and rethrows (the framework answers 500).
CatchAll_Rethrows(j) ==
  /\ gpc[j] = "catch"
  /\ jobs' = [jobs EXCEPT ![j].status = "FAILED",
                          ![j].blockedReason = "INPUT_OR_UNKNOWN_ERROR"]
  /\ recordEvent(j, <<"failed">>)
  /\ gpc' = [gpc EXCEPT ![j] = "done"]
  /\ gq' = [gq EXCEPT ![j] = NoQ]
  /\ gcount' = [gcount EXCEPT ![j] = 0]
  /\ http' = [http EXCEPT ![j] = [status |-> 500, id |-> 0]]
  /\ UNCHANGED <<apiVars, month, env, load, quota, rl, redisFaults, ghost, hookVars, dl>>

\* The outer catch: input fetch or unknown failure.
CatchAll(j) ==
  /\ gpc[j] = "catch"
  /\ jobs' = [jobs EXCEPT ![j].status = "FAILED",
                          ![j].blockedReason = "INPUT_OR_UNKNOWN_ERROR"]
  /\ recordEvent(j, <<"failed">>)
  /\ Respond(j)
  /\ UNCHANGED <<apiVars, month, env, load, quota, rl, redisFaults, ghost, hookVars, dl>>

(***************************************************************************)
(* Stripe: the events the billing provider delivers.  An event id fixes    *)
(* the payload; type, subscription, customer and price are taken from it,  *)
(* status is the subscription status the handler sees (sub.status of the   *)
(* payload, or of stripe.subscriptions.retrieve).                          *)
(***************************************************************************)
EventIds == {"evt_checkout", "evt_deleted", "evt_payfail", "evt_repriced", "evt_other"}

StripeEvent(e) ==
  CASE e = "evt_checkout" ->
         [type |-> "checkout.session.completed", sub |-> "sub_1",
          customer |-> "cus_1", status |-> "active", price |-> PriceIdBasic]
    [] e = "evt_deleted" ->
         [type |-> "customer.subscription.deleted", sub |-> "sub_1",
          customer |-> "cus_1", status |-> "canceled", price |-> PriceIdBasic]
    [] e = "evt_payfail" ->
         [type |-> "invoice.payment_failed", sub |-> "sub_1",
          customer |-> "cus_1", status |-> "active", price |-> PriceIdBasic]
    [] e = "evt_repriced" ->
         [type |-> "customer.subscription.updated", sub |-> "sub_1",
          customer |-> "cus_1", status |-> "active", price |-> "price_retired"]
    [] OTHER ->
         [type |-> "customer.created", sub |-> "sub_1",
          customer |-> "cus_1", status |-> "active", price |-> PriceIdBasic]

SubIds == {"sub_1"}
\* The user each Stripe customer is (known to Stripe and the user, not to the code).
CustomerOwner(c) == "u1"

NoSub == [exists |-> FALSE, userId |-> "", status |-> "", planTier |-> "FREE",
          stripeCustomerId |-> ""]
NoHook == [pc |-> "idle", ev |-> "", user |-> "", q |-> NoQ, res |-> "none",
           newCustomer |-> FALSE]

\* The status the handler passes to applyEntitlementsForSubscription.
hookStatus(e) ==
  IF StripeEvent(e).type = "invoice.payment_failed" THEN "past_due"
  ELSE StripeEvent(e).status

\* applyEntitlementsForSubscription: the tier the status and price resolve to.
resolveTier(status, priceId) ==
  IF status = "active" \/ status = "trialing"
  THEN planFromStripePriceId(priceId)
  ELSE "FREE"

hookTier(e) == resolveTier(hookStatus(e), StripeEvent(e).price)

\* findUserIdByCustomerId: the userId of a Subscription row of that customer.
findUserIdByCustomerId(c) ==
  IF \E s \in SubIds : subs[s].exists /\ subs[s].stripeCustomerId = c
  THEN subs[CHOOSE s \in SubIds : subs[s].exists /\ subs[s].stripeCustomerId = c].userId
  ELSE ""

(***************************************************************************)
(* POST /api/stripe/webhook                                                *)
(***************************************************************************)

\* The Stripe-Signature header of a request: absent, one that constructEvent
\* rejects, or one that verifies against the signing secret.
Signatures == {"absent", "bad", "good"}

\* The response to a request that does not get past constructEvent, 0 if it does.
verifyStatus(sig) ==
  IF sig = "absent" THEN 400
  ELSE IF ~env.webhookSecret THEN 500
  ELSE IF sig = "bad" THEN 400
  ELSE 0

\* Mutant: the delivery is recorded before its signature is verified.
RejectDelivery_RecordsFirst(sig, e) ==
  /\ hookRej.n < load.hrej
  /\ verifyStatus(sig) # 0
  /\ hookRej' = [n |-> hookRej.n + 1, status |-> verifyStatus(sig), sig |-> sig]
  /\ webhookEvents' = [webhookEvents EXCEPT ![e] = "received"]
  /\ UNCHANGED <<month, env, load, quota, rl, redisFaults, genVars, subs, locks, auditLog,
                 hook, applied, dl, poll, rej, up, blobs, usage, widget>>

\* A request claiming to deliver event e that is answered before the event is
\* read: no signature header 400, no STRIPE_WEBHOOK_SECRET 500, constructEvent
\* throws 400.
RejectDelivery(sig, e) ==
  /\ hookRej.n < load.hrej
  /\ verifyStatus(sig) # 0
  /\ hookRej' = [n |-> hookRej.n + 1, status |-> verifyStatus(sig), sig |-> sig]
  /\ UNCHANGED <<month, env, load, quota, rl, redisFaults, genVars, hookVars, dl, poll,
                 rej, up, blobs, usage, widget>>

\* A delivery of event e whose signature verifies (verifyStatus("good") = 0).
StartDelivery(e) ==
  /\ verifyStatus("good") = 0
  /\ InFlight < MaxInFlight
  /\ Cardinality({h \in Deliveries : hook[h].pc # "idle"}) < load.hook
  /\ \E h \in Deliveries :
       /\ hook[h].pc = "idle"
       /\ \A i \in Deliveries : i < h => hook[i].pc # "idle"
       /\ hook' = [hook EXCEPT ![h] =
                     [NoHook EXCEPT !.pc = "lock", !.ev = e,
                                    !.newCustomer = \A s \in SubIds : ~subs[s].exists]]
  /\ UNCHANGED <<apiVars, month, env, load, quota, rl, redisFaults, genVars, subs,
                 webhookEvents, locks, auditLog, applied, dl>>

\* tryAcquireIdempotency: SET key NX EX; true without Redis or when SET throws.
tryAcquireIdempotency(h) ==
  /\ hook[h].pc = "lock"
  /\ LET e == hook[h].ev IN
     \/ /\ ~getRedis
        /\ hook' = [hook EXCEPT ![h].pc = "record"]
        /\ UNCHANGED <<locks, redisFaults>>
     \/ /\ getRedis
        /\ IF e \in locks
           THEN /\ hook' = [hook EXCEPT ![h].pc = "done", ![h].res = "deduped_redis"]
                /\ UNCHANGED locks
           ELSE /\ hook' = [hook EXCEPT ![h].pc = "record"]
                /\ locks' = locks \cup {e}
        /\ UNCHANGED redisFaults
     \/ /\ getRedis
        /\ RedisMayThrow
        /\ redisFaults' = redisFaults + 1
        /\ hook' = [hook EXCEPT ![h].pc = "record"]
        /\ UNCHANGED locks
  /\ UNCHANGED <<apiVars, month, env, load, quota, rl, genVars, subs, webhookEvents, auditLog,
                 applied, dl>>

\* The first await of the switch for an event type.
firstStep(type) ==
  IF type \in {"checkout.session.completed", "invoice.payment_failed"}
  THEN "stripe_fetch"
  ELSE IF type \in {"customer.subscription.updated", "customer.subscription.deleted"}
  THEN "find"
  ELSE "mark_ok"

\* Mutant: the unique violation is not taken as "already recorded".
recordWebhookEvent_NoUnique(h) ==
  /\ hook[h].pc = "record"
  /\ LET e == hook[h].ev IN
       /\ webhookEvents' = [webhookEvents EXCEPT ![e] = "received"]
       /\ hook' = [hook EXCEPT ![h].pc = firstStep(StripeEvent(e).type)]
  /\ UNCHANGED <<apiVars, month, env, load, quota, rl, redisFaults, genVars, subs, locks,
                 auditLog, applied, dl>>

\* Mutant: an event whose row says "failed" is processed again.
recordWebhookEvent_RetriesFailed(h) ==
  /\ hook[h].pc = "record"
  /\ LET e == hook[h].ev IN
     IF webhookEvents[e] \notin {"none", "failed"}
     THEN /\ hook' = [hook EXCEPT ![h].pc = "done", ![h].res = "deduped"]
          /\ UNCHANGED webhookEvents
     ELSE /\ webhookEvents' = [webhookEvents EXCEPT ![e] = "received"]
          /\ hook' = [hook EXCEPT ![h].pc = firstStep(StripeEvent(e).type)]
  /\ UNCHANGED <<apiVars, month, env, load, quota, rl, redisFaults, genVars, subs, locks,
                 auditLog, applied, dl>>

\* recordWebhookEvent: create the WebhookEvent row; false on a unique violation.
recordWebhookEvent(h) ==
  /\ hook[h].pc = "record"
  /\ LET e == hook[h].ev IN
     IF webhookEvents[e] # "none"
     THEN /\ hook' = [hook EXCEPT ![h].pc = "done", ![h].res = "deduped"]
          /\ UNCHANGED webhookEvents
     ELSE /\ webhookEvents' = [webhookEvents EXCEPT ![e] = "received"]
          /\ hook' = [hook EXCEPT ![h].pc = firstStep(StripeEvent(e).type)]
  /\ UNCHANGED <<apiVars, month, env, load, quota, rl, redisFaults, genVars, subs, locks,
                 auditLog, applied, dl>>

\* fetchSubscriptionDetails: stripe.subscriptions.retrieve answers or throws.
fetchSubscriptionDetails(h) ==
  /\ hook[h].pc = "stripe_fetch"
  /\ \/ hook' = [hook EXCEPT ![h].pc = "find"]
     \/ hook' = [hook EXCEPT ![h].pc = "mark_failed"]
  /\ UNCHANGED <<apiVars, month, env, load, quota, rl, redisFaults, genVars, subs,
                 webhookEvents, locks, auditLog, applied, dl>>

\* const userId = await findUserIdByCustomerId(...); if (userId) apply...
FindUser(h) ==
  /\ hook[h].pc = "find"
  /\ LET userId == findUserIdByCustomerId(StripeEvent(hook[h].ev).customer) IN
     IF userId = ""
     THEN hook' = [hook EXCEPT ![h].pc = "mark_ok"]
     ELSE hook' = [hook EXCEPT ![h].pc = "upsert", ![h].user = userId]
  /\ UNCHANGED <<apiVars, month, env, load, quota, rl, redisFaults, genVars, subs,
                 webhookEvents, locks, auditLog, applied, dl>>

\* applyEntitlementsForSubscription: upsert the Subscription row.
UpsertSubscription(h) ==
  /\ hook[h].pc = "upsert"
  /\ LET e == hook[h].ev
         ev == StripeEvent(e)
     IN /\ subs' = [subs EXCEPT ![ev.sub] =
                      [exists |-> TRUE, userId |-> hook[h].user,
                       status |-> hookStatus(e), planTier |-> hookTier(e),
                       stripeCustomerId |-> ev.customer]]
        /\ applied' = [applied EXCEPT ![e].runs = @ + 1]
  /\ hook' = [hook EXCEPT ![h].pc = "hq_find"]
  /\ UNCHANGED <<apiVars, month, env, load, quota, rl, redisFaults, genVars,
                 webhookEvents, locks, auditLog, dl>>

\* applyEntitlementsForSubscription: getOrCreateQuota, findUnique.
HookQuotaFind(h) ==
  /\ hook[h].pc = "hq_find"
  /\ LET r == quota[<<hook[h].user, monthUtc>>] IN
       hook' = [hook EXCEPT ![h].q = QOf(monthUtc, r),
                            ![h].pc = IF r.exists THEN "hq_update" ELSE "hq_create"]
  /\ UNCHANGED <<apiVars, month, env, load, quota, rl, redisFaults, genVars, subs,
                 webhookEvents, locks, auditLog, applied, dl>>

\* applyEntitlementsForSubscription: getOrCreateQuota, create (may throw).
HookQuotaCreate(h) ==
  /\ hook[h].pc = "hq_create"
  /\ LET k == <<hook[h].user, hook[h].q.month>>
         fresh == Row(PLAN_DEFAULTS["FREE"].monthlyQuota, 0, FALSE)
     IN IF quota[k].exists
        THEN /\ hook' = [hook EXCEPT ![h].pc = "mark_failed"]
             /\ UNCHANGED quota
        ELSE /\ quota' = [quota EXCEPT ![k] = fresh]
             /\ hook' = [hook EXCEPT ![h].pc = "hq_update",
                                     ![h].q = QOf(hook[h].q.month, fresh)]
  /\ UNCHANGED <<apiVars, month, env, load, rl, redisFaults, genVars, subs,
                 webhookEvents, locks, auditLog, applied, dl>>

\* Mutant: the paid branch also resets the free allowance to the default.
syncedRow_ResetsFree(tier, cur, q) ==
  IF tier = "FREE"
  THEN [cur EXCEPT !.free = Min(q.free, PLAN_DEFAULTS["FREE"].monthlyQuota),
                   !.paid = 0, !.exempt = FALSE]
  ELSE [cur EXCEPT !.free = PLAN_DEFAULTS["FREE"].monthlyQuota,
                   !.paid = PLAN_DEFAULTS[tier].monthlyQuota,
                   !.exempt = PLAN_DEFAULTS[tier].watermarkExempt]

\* Mutant: the paid branch writes the paid quota and leaves the watermark flag.
syncedRow_KeepsWatermark(tier, cur, q) ==
  IF tier = "FREE"
  THEN [cur EXCEPT !.free = Min(q.free, PLAN_DEFAULTS["FREE"].monthlyQuota),
                   !.paid = 0, !.exempt = FALSE]
  ELSE [cur EXCEPT !.paid = PLAN_DEFAULTS[tier].monthlyQuota]

\* The row applyEntitlementsForSubscription writes over cur, having read q.
syncedRow(tier, cur, q) ==
  IF tier = "FREE"
  THEN [cur EXCEPT !.free = Min(q.free, PLAN_DEFAULTS["FREE"].monthlyQuota),
                   !.paid = 0, !.exempt = FALSE]
  ELSE [cur EXCEPT !.paid = PLAN_DEFAULTS[tier].monthlyQuota,
                   !.exempt = PLAN_DEFAULTS[tier].watermarkExempt]

\* applyEntitlementsForSubscription: bring the quota row in sync.
HookQuotaUpdate(h) ==
  /\ hook[h].pc = "hq_update"
  /\ LET k == <<hook[h].user, hook[h].q.month>> IN
       quota' = [quota EXCEPT ![k] = syncedRow(hookTier(hook[h].ev), quota[k], hook[h].q)]
  /\ applied' = [applied EXCEPT ![hook[h].ev].quotaUpdates = @ + 1]
  /\ hook' = [hook EXCEPT ![h].pc = "audit"]
  /\ UNCHANGED <<apiVars, month, env, load, rl, redisFaults, genVars, subs,
                 webhookEvents, locks, auditLog, dl>>

\* applyEntitlementsForSubscription: the ENTITLEMENTS_SYNC audit row.
WriteAuditLog(h) ==
  /\ hook[h].pc = "audit"
  /\ auditLog' = auditLog + 1
  /\ hook' = [hook EXCEPT ![h].pc = "mark_ok"]
  /\ UNCHANGED <<apiVars, month, env, load, quota, rl, redisFaults, genVars, subs,
                 webhookEvents, locks, applied, dl>>

\* markProcessed(event.id, "processed" | "failed") and the response.
markProcessed(h) ==
  /\ hook[h].pc \in {"mark_ok", "mark_failed"}
  /\ webhookEvents' = [webhookEvents EXCEPT ![hook[h].ev] =
                         IF hook[h].pc = "mark_ok" THEN "processed" ELSE "failed"]
  /\ hook' = [hook EXCEPT ![h].pc = "done", ![h].q = NoQ,
                          ![h].res = IF hook[h].pc = "mark_ok" THEN "ok" ELSE "500"]
  /\ UNCHANGED <<apiVars, month, env, load, quota, rl, redisFaults, genVars, subs, locks,
                 auditLog, applied, dl>>

(***************************************************************************)
(* GET /api/download/[id] (authenticated session of user u)                *)
(***************************************************************************)
NoDl == [pc |-> "idle", user |-> "", job |-> 0, res |-> "none", fetched |-> FALSE]

\* isWatermarkExempt: the flag of the user's row of the current month, false
\* when there is no such row.
isWatermarkExempt(u) ==
  quota[<<u, monthUtc>>].exists /\ quota[<<u, monthUtc>>].exempt

\* The body the download answers with, given the exemption it looked up.
downloadBody(exempt) == IF ~exempt THEN "watermarked" ELSE "original"

\* getServerSession: u is the session's user id, "" without a session (401).
StartDownload(u, j) ==
  /\ InFlight < MaxInFlight
  /\ Cardinality({d \in Downloads : dl[d].pc # "idle"}) < load.dl
  /\ \E d \in Downloads :
       /\ dl[d].pc = "idle"
       /\ \A i \in Downloads : i < d => dl[i].pc # "idle"
       /\ dl' = [dl EXCEPT ![d] =
                   IF u = ""
                   THEN [NoDl EXCEPT !.pc = "done", !.job = j, !.res = "401"]
                   ELSE [NoDl EXCEPT !.pc = "job_find", !.user = u, !.job = j]]
  /\ UNCHANGED <<apiVars, month, env, load, quota, rl, redisFaults, genVars, hookVars>>

\* Mutant: the download does not check that the job is completed.
DownloadFindJob_NoStatusCheck(d) ==
  /\ dl[d].pc = "job_find"
  /\ LET job == jobs[dl[d].job]
         answer == IF job.status = "NONE" THEN "404"
                   ELSE IF job.user # dl[d].user THEN "403"
                   ELSE "none"
     IN dl' = [dl EXCEPT ![d].res = answer,
                         ![d].pc = IF answer = "none" THEN "fetch" ELSE "done"]
  /\ UNCHANGED <<apiVars, month, env, load, quota, rl, redisFaults, genVars, hookVars>>

\* findUnique on the job, then the 404 / 403 / 409 checks.
DownloadFindJob(d) ==
  /\ dl[d].pc = "job_find"
  /\ LET job == jobs[dl[d].job]
         answer == IF job.status = "NONE" THEN "404"
                   ELSE IF job.user # dl[d].user THEN "403"
                   ELSE IF ~job.outputBlobUrl \/ job.status # "COMPLETED" THEN "409"
                   ELSE "none"
     IN dl' = [dl EXCEPT ![d].res = answer,
                         ![d].pc = IF answer = "none" THEN "fetch" ELSE "done"]
  /\ UNCHANGED <<apiVars, month, env, load, quota, rl, redisFaults, genVars, hookVars>>

\* fetch(job.outputBlobUrl), HEAD and GET: the bytes, or 502.
DownloadFetch(d) ==
  /\ dl[d].pc = "fetch"
  /\ \/ dl' = [dl EXCEPT ![d].pc = "exempt", ![d].fetched = TRUE]
     \/ dl' = [dl EXCEPT ![d].pc = "done", ![d].res = "502", ![d].fetched = TRUE]
  /\ UNCHANGED <<apiVars, month, env, load, quota, rl, redisFaults, genVars, hookVars>>

\* Mutant: the exemption is the one the user had when the job completed.
DownloadRespond_Cached(d) ==
  /\ dl[d].pc = "exempt"
  /\ dl' = [dl EXCEPT ![d].pc = "done",
                      ![d].res = downloadBody(ghost[dl[d].job].exemptAtCompletion)]
  /\ UNCHANGED <<apiVars, month, env, load, quota, rl, redisFaults, genVars, hookVars>>

\* const exempt = await isWatermarkExempt(userId); watermark unless exempt.
DownloadRespond(d) ==
  /\ dl[d].pc = "exempt"
  /\ dl' = [dl EXCEPT ![d].pc = "done",
                      ![d].res = downloadBody(isWatermarkExempt(dl[d].user))]
  /\ UNCHANGED <<apiVars, month, env, load, quota, rl, redisFaults, genVars, hookVars>>

(***************************************************************************)
(* GET /api/jobs/[id]                                                      *)
(***************************************************************************)

\* The sessions a request can come with: a user, or "" for no session.
Sessions == Users \cup {""}

\* getServerSession: u is the session's user id, "" without a session (401).
StartPoll(u, j) ==
  /\ InFlight < MaxInFlight
  /\ Cardinality({p \in Polls : poll[p].pc # "idle"}) < load.poll
  /\ \E p \in Polls :
       /\ poll[p].pc = "idle"
       /\ \A i \in Polls : i < p => poll[i].pc # "idle"
       /\ poll' = [poll EXCEPT ![p] =
                     IF u = ""
                     THEN [NoPoll EXCEPT !.pc = "done", !.job = j, !.res = "401"]
                     ELSE [NoPoll EXCEPT !.pc = "job_find", !.user = u, !.job = j]]
  /\ UNCHANGED <<month, env, load, quota, rl, redisFaults, genVars, hookVars, dl, rej, sideVars>>

\* Mutant: the job is returned to whoever asks for it.
PollFindJob_NoOwnerCheck(p) ==
  /\ poll[p].pc = "job_find"
  /\ LET job == jobs[poll[p].job] IN
       poll' = [poll EXCEPT ![p].pc = "done",
                            ![p].res = IF job.status = "NONE" THEN "404" ELSE "200",
                            ![p].body = IF job.status = "NONE" THEN NoJob ELSE job]
  /\ UNCHANGED <<month, env, load, quota, rl, redisFaults, genVars, hookVars, dl, rej, sideVars>>

\* findUnique on the job: 404 without a row, 403 for another user's job, else
\* the job's fields.
PollFindJob(p) ==
  /\ poll[p].pc = "job_find"
  /\ LET job == jobs[poll[p].job]
         answer == IF job.status = "NONE" THEN "404"
                   ELSE IF job.user # poll[p].user THEN "403"
                   ELSE "200"
     IN poll' = [poll EXCEPT ![p].pc = "done", ![p].res = answer,
                             ![p].body = IF answer = "200" THEN job ELSE NoJob]
  /\ UNCHANGED <<month, env, load, quota, rl, redisFaults, genVars, hookVars, dl, rej, sideVars>>

(***************************************************************************)
(* POST /api/generate: the requests the handler rejects before it creates  *)
(* a job.  A body is given by what BodySchema looks at.                    *)
(***************************************************************************)
Styles == {"BYZANTINE", "GOTHIC", "CYBERPUNK"}
OutputFormats == {"png", "webp"}

Bodies ==
  [style : {"GOTHIC", "BAROQUE"},
   scheme : {"https", "ftp"},
   uploads : BOOLEAN,
   promptVariant : {MaxPromptVariant, MaxPromptVariant + 1},
   outputFormat : {"absent", "gif"}]

\* BodySchema.parse: inputUrl is an http(s) URL that includes "/uploads/",
\* style is one of the three styles, promptVariant (given by its length) has
\* at most 200 characters, outputFormat is absent, png or webp.
BodySchema(body) ==
  /\ body.scheme \in {"https", "http"}
  /\ body.uploads
  /\ body.style \in Styles
  /\ body.promptVariant <= MaxPromptVariant
  /\ body.outputFormat \in OutputFormats \cup {"absent"}

\* Mutant: the request is counted by the rate limiter before it is validated.
RejectGenerate_CountsFirst(u, body) ==
  /\ rej.n < load.rej
  /\ u = "" \/ ~BodySchema(body)
  /\ rej' = [n |-> rej.n + 1, status |-> IF u = "" THEN 401 ELSE 400,
             user |-> u, valid |-> BodySchema(body)]
  /\ rl' = [rl EXCEPT !["u1"].count = @ + 1]
  /\ UNCHANGED <<month, env, load, quota, redisFaults, genVars, hookVars, dl, poll, sideVars>>

\* No session: 401; a body that BodySchema rejects: 400; nothing is written.
RejectGenerate(u, body) ==
  /\ rej.n < load.rej
  /\ u = "" \/ ~BodySchema(body)
  /\ rej' = [n |-> rej.n + 1, status |-> IF u = "" THEN 401 ELSE 400,
             user |-> u, valid |-> BodySchema(body)]
  /\ UNCHANGED <<month, env, load, quota, rl, redisFaults, genVars, hookVars, dl, poll, sideVars>>

(***************************************************************************)
(* POST /api/upload-url.  The handler never asks for the session; s is the *)
(* session the request comes with ("" for none), kept for the properties.  *)
(***************************************************************************)
AllowedTypes == {"image/jpeg", "image/png", "image/webp", "image/heic", "image/heif"}
MaxUploadBytes == 20 * 1024 * 1024

\* The "file" field of the form: missing, or a file of a type and a size.
Files ==
  {NoFile} \cup [present : {TRUE},
                 type : {"image/jpeg", "image/gif"},
                 size : {MaxUploadBytes, MaxUploadBytes + 1}]

\* The content type is looked at first: 400 unless multipart/form-data.
StartUpload(s, multipart, f) ==
  /\ InFlight < MaxInFlight
  /\ Cardinality({u \in Uploads : up[u].pc # "idle"}) < load.up
  /\ \E u \in Uploads :
       /\ up[u].pc = "idle"
       /\ \A i \in Uploads : i < u => up[i].pc # "idle"
       /\ up' = [up EXCEPT ![u] =
                   IF ~multipart
                   THEN [NoUpload EXCEPT !.pc = "done", !.session = s, !.res = 400]
                   ELSE [NoUpload EXCEPT !.pc = "form", !.session = s, !.file = f]]
  /\ UNCHANGED <<month, env, load, quota, rl, redisFaults, genVars, hookVars, dl, poll, rej,
                 blobs, usage, hookRej, widget>>

\* Mutant: the size cap is not enforced.
uploadCheck_NoSizeCap(file) ==
  IF ~file.present THEN 400
  ELSE IF file.type \notin AllowedTypes THEN 415
  ELSE IF ~env.blobToken THEN 500
  ELSE 0

\* The checks between formData() and put(): the status answered, 0 to go on.
uploadCheck(file) ==
  IF ~file.present THEN 400
  ELSE IF file.type \notin AllowedTypes THEN 415
  ELSE IF file.size > MaxUploadBytes THEN 413
  ELSE IF ~env.blobToken THEN 500
  ELSE 0

\* await req.formData() has returned the form: the checks on its file field.
UploadValidate(u) ==
  /\ up[u].pc = "form"
  /\ up' = [up EXCEPT ![u].pc = IF uploadCheck(up[u].file) = 0 THEN "put" ELSE "done",
                      ![u].res = uploadCheck(up[u].file)]
  /\ UNCHANGED <<month, env, load, quota, rl, redisFaults, genVars, hookVars, dl, poll, rej,
                 blobs, usage, hookRej, widget>>

\* await put(key, ...): the object is stored and 200 answered, or put throws: 500.
UploadPut(u) ==
  /\ up[u].pc = "put"
  /\ \/ /\ blobs' = blobs + 1
        /\ up' = [up EXCEPT ![u].pc = "done", ![u].res = 200, ![u].stored = TRUE]
     \/ /\ up' = [up EXCEPT ![u].pc = "done", ![u].res = 500]
        /\ UNCHANGED blobs
  /\ UNCHANGED <<month, env, load, quota, rl, redisFaults, genVars, hookVars, dl, poll, rej,
                 usage, hookRej, widget>>

(***************************************************************************)
(* GET /api/usage                                                          *)
(***************************************************************************)

\* getServerSession: s is the session's user id, "" without a session (401).
StartUsage(s) ==
  /\ InFlight < MaxInFlight
  /\ Cardinality({r \in UsageReqs : usage[r].pc # "idle"}) < load.usage
  /\ \E r \in UsageReqs :
       /\ usage[r].pc = "idle"
       /\ \A i \in UsageReqs : i < r => usage[i].pc # "idle"
       /\ usage' = [usage EXCEPT ![r] =
                      IF s = ""
                      THEN [NoUsage EXCEPT !.pc = "done", !.res = 401]
                      ELSE [NoUsage EXCEPT !.pc = "sub_find", !.user = s]]
  /\ UNCHANGED <<month, env, load, quota, rl, redisFaults, genVars, hookVars, dl, poll, rej,
                 up, blobs, hookRej, widget>>

\* subscription.findFirst (active or trialing) answers; m = monthUtc().
UsageFindSub(r) ==
  /\ usage[r].pc = "sub_find"
  /\ LET mine == {s \in SubIds : /\ subs[s].exists
                                 /\ subs[s].userId = usage[r].user
                                 /\ subs[s].status \in {"active", "trialing"}}
     IN usage' = [usage EXCEPT ![r].pc = "q_find", ![r].month = monthUtc,
                    ![r].tier = IF mine = {} THEN "FREE"
                                ELSE subs[CHOOSE s \in mine : TRUE].planTier]
  /\ UNCHANGED <<month, env, load, quota, rl, redisFaults, genVars, hookVars, dl, poll, rej,
                 up, blobs, hookRej, widget>>

\* getOrCreateQuota, findUnique: the row is answered if there is one.
UsageQuotaFind(r) ==
  /\ usage[r].pc = "q_find"
  /\ usage' = [usage EXCEPT
                 ![r].pc = IF quota[<<usage[r].user, usage[r].month>>].exists
                           THEN "done" ELSE "q_create",
                 ![r].res = IF quota[<<usage[r].user, usage[r].month>>].exists
                            THEN 200 ELSE 0]
  /\ UNCHANGED <<month, env, load, quota, rl, redisFaults, genVars, hookVars, dl, poll, rej,
                 up, blobs, hookRej, widget>>

\* Mutant: a missing row is answered with the defaults and not created.
UsageQuotaCreate_ReadOnly(r) ==
  /\ usage[r].pc = "q_create"
  /\ usage' = [usage EXCEPT ![r].pc = "done", ![r].res = 200]
  /\ UNCHANGED <<month, env, load, quota, rl, redisFaults, genVars, hookVars, dl, poll, rej,
                 up, blobs, hookRej, widget>>

\* getOrCreateQuota, create: the FREE defaults; a unique violation is not caught (500).
UsageQuotaCreate(r) ==
  /\ usage[r].pc = "q_create"
  /\ LET k == <<usage[r].user, usage[r].month>> IN
     IF quota[k].exists
     THEN /\ usage' = [usage EXCEPT ![r].pc = "done", ![r].res = 500]
          /\ UNCHANGED quota
     ELSE /\ quota' = [quota EXCEPT ![k] = Row(PLAN_DEFAULTS["FREE"].monthlyQuota, 0, FALSE)]
          /\ usage' = [usage EXCEPT ![r].pc = "done", ![r].res = 200, ![r].created = TRUE]
  /\ UNCHANGED <<month, env, load, rl, redisFaults, genVars, hookVars, dl, poll, rej,
                 up, blobs, hookRej, widget>>

(***************************************************************************)
(* UploadWidget (browser).  widget.flows are the calls of onStart, each at *)
(* its await; widget.ticks are the polls in flight; widget.timers are the  *)
(* live intervals, named by the job they poll, pollRef.current is one of   *)
(* them or 0; claimed are the jobs whose id a flow has received; shown are *)
(* the jobs for which a poll has displayed a terminal phase; late records  *)
(* that a response was handled for a job already in shown; resets counts   *)
(* the clicks on Reset.                                                    *)
(***************************************************************************)
ServerVars ==
  <<month, env, load, quota, rl, redisFaults, genVars, hookVars, dl, poll, rej, up, blobs,
    usage, hookRej>>

TerminalPhases == {"completed", "blocked", "failed"}

\* The Generate button is enabled.
generateEnabled ==
  widget.file /\ ~widget.busy /\ widget.phase \notin {"processing", "queued"}

\* onSelectFile
onSelectFile ==
  /\ widget.mounted
  /\ widget' = [widget EXCEPT !.file = TRUE, !.phase = "picking", !.jobId = 0]
  /\ UNCHANGED ServerVars

\* onStart, up to the fetch of uploadToBlob.
onStart ==
  /\ widget.mounted
  /\ generateEnabled
  /\ \E f \in Flows :
       /\ widget.flows[f] = "idle"
       /\ \A i \in Flows : i < f => widget.flows[i] # "idle"
       /\ widget' = [widget EXCEPT !.busy = TRUE, !.phase = "uploading", !.jobId = 0,
                                   !.flows[f] = "uploading"]
  /\ UNCHANGED ServerVars

\* uploadToBlob returns and startGeneration sends its request, or uploadToBlob
\* throws into the catch of onStart.
UploadReturns(f) ==
  /\ widget.flows[f] = "uploading"
  /\ \/ widget' = [widget EXCEPT !.phase = "queued", !.flows[f] = "gen_sent"]
     \/ widget' = [widget EXCEPT !.busy = FALSE, !.phase = "failed", !.flows[f] = "done"]
  /\ UNCHANGED ServerVars

\* The generate requests the widget has sent, and those the server has taken up.
GenerateSent ==
  Cardinality({f \in Flows : widget.flows[f] = "gen_sent"}) + Cardinality(widget.claimed)
GenerateReceived == Cardinality({j \in JobIds : gpc[j] # "idle"})

\* startGeneration throws (401, a response that is not ok, no id): catch of onStart.
GenerateFails(f) ==
  /\ widget.flows[f] = "gen_sent"
  /\ GenerateReceived < GenerateSent
  /\ widget' = [widget EXCEPT !.busy = FALSE, !.phase = "failed", !.flows[f] = "done"]
  /\ UNCHANGED ServerVars

\* Mutant: the id of a job is answered as soon as the job is created.
generateAnswered_AtCreation(j) == gpc[j] # "idle"

\* The generate handler has answered 200 with the id of job j.
generateAnswered(j) == gpc[j] = "done" /\ http[j] = [status |-> 200, id |-> j]

\* tick() up to its fetch: a poll for job j is in flight (in the first free slot).
issueTick(ticks, j) ==
  IF \E k \in TickIds : ticks[k] = NoTick
  THEN [ticks EXCEPT ![CHOOSE k \in TickIds :
                         /\ ticks[k] = NoTick
                         /\ \A i \in TickIds : i < k => ticks[i] # NoTick] =
                       [job |-> j, res |-> "pending"]]
  ELSE ticks

\* Mutant: startPolling does not clear the interval that is running.
startPolling_KeepsTimer(j) ==
  [widget EXCEPT !.phase = "processing", !.jobId = j,
                 !.timers = @ \cup {j}, !.pollRef = j,
                 !.ticks = issueTick(@, j)]

\* startPolling(id): phase, clearInterval(pollRef.current), tick(), setInterval.
startPolling(j) ==
  [widget EXCEPT !.phase = "processing", !.jobId = j,
                 !.timers = (@ \ {widget.pollRef}) \cup {j}, !.pollRef = j,
                 !.ticks = issueTick(@, j)]

\* startGeneration returns the id of a job and onStart calls startPolling.
GenerateReturns(f) ==
  /\ widget.flows[f] = "gen_sent"
  /\ \E j \in JobIds \ widget.claimed :
       /\ generateAnswered(j)
       /\ \A i \in JobIds \ widget.claimed : i < j => ~generateAnswered(i)
       /\ widget' = [startPolling(j) EXCEPT !.flows[f] = "done", !.claimed = @ \cup {j}]
  /\ UNCHANGED ServerVars

\* An interval fires: tick().
TimerFires ==
  /\ \E k \in TickIds : widget.ticks[k] = NoTick
  /\ \E t \in widget.timers : widget' = [widget EXCEPT !.ticks = issueTick(@, t)]
  /\ UNCHANGED ServerVars

\* GET /api/jobs/{id} for a poll of the widget: the job's status as the server
\* reads it, or a response that is not ok (or a fetch that throws).
TickServed(k) ==
  /\ widget.ticks[k].res = "pending"
  /\ \/ widget' = [widget EXCEPT !.ticks[k].res = jobs[widget.ticks[k].job].status]
     \/ widget' = [widget EXCEPT !.ticks[k].res = "error"]
  /\ UNCHANGED ServerVars

\* tick(), the switch on job.status: the phase, and on a terminal status
\* clearInterval(pollRef.current).
tickSwitch(w, job, status) ==
  IF status = "QUEUED" THEN [w EXCEPT !.phase = "queued"]
  ELSE IF status = "PROCESSING" THEN [w EXCEPT !.phase = "processing"]
  ELSE IF status \in Terminal
  THEN [w EXCEPT !.phase = IF status = "COMPLETED" THEN "completed"
                           ELSE IF status = "BLOCKED" THEN "blocked" ELSE "failed",
                 !.timers = @ \ {w.pollRef}, !.pollRef = 0,
                 !.shown = @ \cup {job}]
  ELSE w

\* The response of a poll arrives and tick() goes on after its await.
TickHandled(k) ==
  /\ widget.ticks[k].res \notin {"free", "pending"}
  /\ widget' = [tickSwitch(widget, widget.ticks[k].job, widget.ticks[k].res)
                  EXCEPT !.ticks[k] = NoTick,
                         !.late = @ \/ widget.ticks[k].job \in widget.shown]
  /\ UNCHANGED ServerVars

\* onReset: clearState() and setFile(null).
onReset ==
  /\ widget.mounted
  /\ widget.resets < MaxResets
  /\ widget' = [widget EXCEPT !.busy = FALSE, !.phase = "idle", !.jobId = 0,
                              !.timers = @ \ {widget.pollRef}, !.pollRef = 0,
                              !.file = FALSE, !.resets = @ + 1]
  /\ UNCHANGED ServerVars

\* The cleanup of the effect: the component unmounts.
Unmount ==
  /\ widget.mounted
  /\ widget' = [widget EXCEPT !.mounted = FALSE,
                              !.timers = @ \ {widget.pollRef}, !.pollRef = 0]
  /\ UNCHANGED ServerVars

(***************************************************************************)
(* Time                                                                    *)
(***************************************************************************)

\* The UTC month key rolls over.
MonthRollover ==
  /\ month < MaxMonth
  /\ month' = month + 1
  /\ UNCHANGED <<apiVars, env, load, quota, rl, redisFaults, genVars, hookVars, dl>>

\* Redis drops a rate-limit key whose TTL has run out.
ExpireRateKey(u) ==
  /\ rl[u].count > 0
  /\ rl[u].ttl
  /\ rl' = [rl EXCEPT ![u] = [count |-> 0, ttl |-> FALSE, win |-> rl[u].win + 1]]
  /\ UNCHANGED <<apiVars, month, env, load, quota, redisFaults, genVars, hookVars, dl>>

\* Redis drops an idempotency key after its 24 h TTL.
ExpireLock(e) ==
  /\ e \in locks
  /\ locks' = locks \ {e}
  /\ UNCHANGED <<apiVars, month, env, load, quota, rl, redisFaults, genVars, subs,
                 webhookEvents, auditLog, hook, applied, dl>>

(***************************************************************************)
(* Initial states: an empty ImageJob table; the database the application   *)
(* runs on may already hold the user's Quota row of the month (free tier,  *)
(* partly used) and a Subscription row linking the Stripe customer to the  *)
(* user; Redis may hold the counter of the user's running window.          *)
(***************************************************************************)
InitQuotaRows == {NoRow, Row(0, 0, FALSE), Row(1, 0, FALSE)}
InitRateKeys ==
  {[count |-> 0, ttl |-> FALSE, win |-> 0], [count |-> RateMax - 1, ttl |-> TRUE, win |-> 0],
   [count |-> RateMax, ttl |-> TRUE, win |-> 0]}
LinkedSub == [exists |-> TRUE, userId |-> "u1", status |-> "incomplete",
              planTier |-> "FREE", stripeCustomerId |-> "cus_1"]

InitDb ==
  /\ month = 1
  /\ env \in [redis : BOOLEAN, blobToken : BOOLEAN, webhookSecret : BOOLEAN]
  /\ \E r \in InitQuotaRows :
       quota = [k \in Users \X Months |-> IF k = <<"u1", 1>> THEN r ELSE NoRow]
  /\ \E c \in InitRateKeys :
       /\ env.redis \/ c.count = 0
       /\ rl = [u \in Users |-> IF u = "u1" THEN c ELSE [count |-> 0, ttl |-> FALSE, win |-> 0]]
  /\ redisFaults = 0
  /\ jobs = [j \in JobIds |-> NoJob]
  /\ events = [j \in JobIds |-> <<>>]
  /\ gpc = [j \in JobIds |-> "idle"]
  /\ gq = [j \in JobIds |-> NoQ]
  /\ gcount = [j \in JobIds |-> 0]
  /\ ghost = [j \in JobIds |-> NoGhost]
  /\ subs \in [SubIds -> {NoSub, LinkedSub}]
  /\ webhookEvents = [e \in EventIds |-> "none"]
  /\ locks = {}
  /\ auditLog = 0
  /\ hook = [h \in Deliveries |-> NoHook]
  /\ applied = [e \in EventIds |-> [runs |-> 0, quotaUpdates |-> 0]]
  /\ dl = [d \in Downloads |-> NoDl]
  /\ http = [j \in JobIds |-> NoResponse]
  /\ evFaults = [j \in JobIds |-> 0]
  /\ poll = [p \in Polls |-> NoPoll]
  /\ rej = NoReject
  /\ up = [u \in Uploads |-> NoUpload]
  /\ blobs = 0
  /\ usage = [r \in UsageReqs |-> NoUsage]
  /\ hookRej = NoHookReject
  /\ widget = NoWidget

GenStep ==
  \/ \E j \in JobIds : RateLimitIncr(j)
  \/ \E j \in JobIds : RateLimitExpire(j)
  \/ \E j \in JobIds : RateLimitTtl(j)
  \/ \E j \in JobIds : MarkRateLimited(j)
  \/ \E j \in JobIds : QuotaFind(j)
  \/ \E j \in JobIds : QuotaCreate(j)
  \/ \E j \in JobIds : QuotaDecrement(j)
  \/ \E j \in JobIds : MarkQuotaExceeded(j)
  \/ \E j \in JobIds : MoveToProcessing(j)
  \/ \E j \in JobIds : FetchInput(j)
  \/ \E j \in JobIds : CallGemini(j)
  \/ \E j \in JobIds : MarkBlocked(j)
  \/ \E j \in JobIds : MarkModelError(j)
  \/ \E j \in JobIds : MarkUploadNotConfigured(j)
  \/ \E j \in JobIds : UploadOutput(j)
  \/ \E j \in JobIds : MarkCompleted(j)
  \/ \E j \in JobIds : CatchAll(j)

HookStep ==
  \/ \E h \in Deliveries : tryAcquireIdempotency(h)
  \/ \E h \in Deliveries : recordWebhookEvent(h)
  \/ \E h \in Deliveries : fetchSubscriptionDetails(h)
  \/ \E h \in Deliveries : FindUser(h)
  \/ \E h \in Deliveries : UpsertSubscription(h)
  \/ \E h \in Deliveries : HookQuotaFind(h)
  \/ \E h \in Deliveries : HookQuotaCreate(h)
  \/ \E h \in Deliveries : HookQuotaUpdate(h)
  \/ \E h \in Deliveries : WriteAuditLog(h)
  \/ \E h \in Deliveries : markProcessed(h)

DlStep ==
  \/ \E d \in Downloads : DownloadFindJob(d)
  \/ \E d \in Downloads : DownloadFetch(d)
  \/ \E d \in Downloads : DownloadRespond(d)

(***************************************************************************)
(* SpecGen: generate requests of one user, concurrent up to MaxInFlight.   *)
(***************************************************************************)
InitGen ==
  /\ InitDb
  /\ env.webhookSecret
  /\ load = [gen |-> MaxJobs, hook |-> 0, dl |-> 0, poll |-> 0, rej |-> 0, evf |-> 0,
             up |-> 0, usage |-> 0, hrej |-> 0]
  /\ subs = [s \in SubIds |-> NoSub]

NextGen ==
  \/ StartGenerate("u1")
  \/ GenStep
  \/ ExpireRateKey("u1")

SpecGen == InitGen /\ [][NextGen]_vars

(***************************************************************************)
(* SpecGenLive: SpecGen where every call a handler awaits returns or       *)
(* throws, so that the handler of a job takes its next step.               *)
(***************************************************************************)
JobStep(j) ==
  \/ RateLimitIncr(j)
  \/ RateLimitExpire(j)
  \/ RateLimitTtl(j)
  \/ MarkRateLimited(j)
  \/ QuotaFind(j)
  \/ QuotaCreate(j)
  \/ QuotaDecrement(j)
  \/ MarkQuotaExceeded(j)
  \/ MoveToProcessing(j)
  \/ FetchInput(j)
  \/ CallGemini(j)
  \/ MarkBlocked(j)
  \/ MarkModelError(j)
  \/ MarkUploadNotConfigured(j)
  \/ UploadOutput(j)
  \/ MarkCompleted(j)
  \/ CatchAll(j)

AwaitsReturn == \A j \in JobIds : WF_vars(JobStep(j))

SpecGenLive == InitGen /\ [][NextGen]_vars /\ AwaitsReturn

(***************************************************************************)
(* SpecHook: deliveries of Stripe events, concurrent up to MaxInFlight.    *)
(***************************************************************************)
InitHook ==
  /\ InitDb
  /\ load = [gen |-> 0, hook |-> MaxDeliveries, dl |-> 0, poll |-> 0, rej |-> 0, evf |-> 0,
             up |-> 0, usage |-> 0, hrej |-> MaxBadDeliveries]
  /\ env.blobToken
  /\ rl["u1"].count = 0

NextHook ==
  \/ \E e \in EventIds : StartDelivery(e)
  \/ \E sig \in Signatures, e \in EventIds : RejectDelivery(sig, e)
  \/ HookStep
  \/ \E e \in EventIds : ExpireLock(e)

SpecHook == InitHook /\ [][NextHook]_vars

(***************************************************************************)
(* SpecBilling: generate requests of the subscribed user while the         *)
(* subscription is bought and cancelled.                                   *)
(***************************************************************************)
InitBilling ==
  /\ InitDb
  /\ load = [gen |-> MaxJobs, hook |-> MaxDeliveries, dl |-> 0, poll |-> 0, rej |-> 0, evf |-> 0,
             up |-> 0, usage |-> 0, hrej |-> 0]
  /\ env = [redis |-> FALSE, blobToken |-> TRUE, webhookSecret |-> TRUE]
  /\ subs = [s \in SubIds |-> LinkedSub]

NextBilling ==
  \/ StartGenerate("u1")
  \/ \E j \in JobIds : QuotaFind(j)
  \/ \E j \in JobIds : QuotaCreate(j)
  \/ \E j \in JobIds : QuotaDecrement(j)
  \/ \E j \in JobIds : MarkQuotaExceeded(j)
  \/ \E j \in JobIds : RateLimitIncr(j)
  \/ \E j \in JobIds : MoveToProcessing(j)
  \/ \E j \in JobIds : FetchInput(j)
  \/ \E j \in JobIds : CallGemini(j)
  \/ \E j \in JobIds : MarkBlocked(j)
  \/ \E j \in JobIds : MarkModelError(j)
  \/ \E j \in JobIds : UploadOutput(j)
  \/ \E j \in JobIds : MarkCompleted(j)
  \/ \E j \in JobIds : CatchAll(j)
  \/ \E e \in {"evt_checkout", "evt_deleted"} : StartDelivery(e)
  \/ \E h \in Deliveries : tryAcquireIdempotency(h)
  \/ \E h \in Deliveries : recordWebhookEvent(h)
  \/ \E h \in Deliveries : fetchSubscriptionDetails(h)
  \/ \E h \in Deliveries : FindUser(h)
  \/ \E h \in Deliveries : UpsertSubscription(h)
  \/ \E h \in Deliveries : HookQuotaFind(h)
  \/ \E h \in Deliveries : HookQuotaCreate(h)
  \/ \E h \in Deliveries : HookQuotaUpdate(h)
  \/ \E h \in Deliveries : WriteAuditLog(h)
  \/ \E h \in Deliveries : markProcessed(h)

SpecBilling == InitBilling /\ [][NextBilling]_vars

(***************************************************************************)
(* Spec: every handler: generate requests, deliveries of the events that   *)
(* buy and cancel the subscription, and downloads of the first job by its  *)
(* owner and by another user.                                              *)
(***************************************************************************)
Init ==
  /\ InitDb
  /\ env.webhookSecret
  /\ load = [gen |-> MixJobs, hook |-> MixDeliveries, dl |-> MaxDownloads, poll |-> 0, rej |-> 0,
            evf |-> 0,
             up |-> 0, usage |-> 0, hrej |-> 0]
  /\ subs = [s \in SubIds |-> LinkedSub]

Next ==
  \/ StartGenerate("u1")
  \/ GenStep
  \/ \E e \in {"evt_checkout", "evt_deleted"} : StartDelivery(e)
  \/ HookStep
  \/ \E u \in Users : StartDownload(u, 1)
  \/ DlStep
  \/ ExpireRateKey("u1")

Spec == Init /\ [][Next]_vars

(***************************************************************************)
(* SpecRenewal: the subscription is bought, the UTC month rolls over, and  *)
(* the user generates and downloads; Redis is not configured.              *)
(***************************************************************************)
InitRenewal ==
  /\ InitDb
  /\ load = [gen |-> MixJobs, hook |-> MixDeliveries, dl |-> MaxDownloads, poll |-> 0,
             rej |-> 0, evf |-> 0,
             up |-> 0, usage |-> 0, hrej |-> 0]
  /\ env = [redis |-> FALSE, blobToken |-> TRUE, webhookSecret |-> TRUE]
  /\ subs = [s \in SubIds |-> LinkedSub]

NextRenewal ==
  \/ StartGenerate("u1")
  \/ \E j \in JobIds : RateLimitIncr(j)
  \/ \E j \in JobIds : QuotaFind(j)
  \/ \E j \in JobIds : QuotaCreate(j)
  \/ \E j \in JobIds : QuotaDecrement(j)
  \/ \E j \in JobIds : MarkQuotaExceeded(j)
  \/ \E j \in JobIds : MoveToProcessing(j)
  \/ \E j \in JobIds : FetchInput(j)
  \/ \E j \in JobIds : CallGemini(j)
  \/ \E j \in JobIds : MarkBlocked(j)
  \/ \E j \in JobIds : MarkModelError(j)
  \/ \E j \in JobIds : UploadOutput(j)
  \/ \E j \in JobIds : MarkCompleted(j)
  \/ \E j \in JobIds : CatchAll(j)
  \/ StartDelivery("evt_checkout")
  \/ HookStep
  \/ StartDownload("u1", 1)
  \/ DlStep
  \/ MonthRollover

SpecRenewal == InitRenewal /\ [][NextRenewal]_vars

(***************************************************************************)
(* SpecAudit: the generate requests of SpecGen, with GenerationEvent writes *)
(* that may fail.                                                          *)
(***************************************************************************)
InitAudit ==
  /\ InitDb
  /\ env.webhookSecret
  /\ load = [gen |-> MaxJobs, hook |-> 0, dl |-> 0, poll |-> 0, rej |-> 0,
             evf |-> MaxEventFaults,
             up |-> 0, usage |-> 0, hrej |-> 0]
  /\ subs = [s \in SubIds |-> NoSub]

SpecAudit == InitAudit /\ [][NextGen]_vars

(***************************************************************************)
(* SpecApi: one generate request of u1 next to the requests the API        *)
(* answers without writing: polls and downloads of the job by its owner,   *)
(* by another user and without session, and rejected generate requests.    *)
(***************************************************************************)
InitApi ==
  /\ InitDb
  /\ env.webhookSecret
  /\ load = [gen |-> MixJobs, hook |-> 0, dl |-> MaxDownloads, poll |-> MaxPolls,
             rej |-> MaxRejects, evf |-> 0,
             up |-> 0, usage |-> 0, hrej |-> 0]
  /\ env.redis
  /\ subs = [s \in SubIds |-> NoSub]

NextApi ==
  \/ StartGenerate("u1")
  \/ GenStep
  \/ \E u \in Sessions : StartPoll(u, 1)
  \/ \E p \in Polls : PollFindJob(p)
  \/ \E u \in Sessions : StartDownload(u, 1)
  \/ DlStep
  \/ /\ rej.n < load.rej
     /\ \E u \in {"", "u1"}, body \in Bodies : RejectGenerate(u, body)

SpecApi == InitApi /\ [][NextApi]_vars

(***************************************************************************)
(* SpecUpload: uploads next to the other API steps asked for without a     *)
(* job: polls, downloads and generate requests the API refuses.            *)
(***************************************************************************)
InitUpload ==
  /\ InitDb
  /\ env.webhookSecret
  /\ ~env.redis
  /\ load = [gen |-> 0, hook |-> 0, dl |-> MaxDownloads, poll |-> MaxPolls,
             rej |-> MaxRejects, evf |-> 0, up |-> MaxUploads, usage |-> 0, hrej |-> 0]
  /\ quota[<<"u1", 1>>] = NoRow
  /\ subs = [s \in SubIds |-> NoSub]

NextUpload ==
  \/ /\ up[MaxUploads].pc = "idle"
     /\ \E s \in {"", "u1"}, f \in Files : StartUpload(s, TRUE, f)
  \/ /\ up[MaxUploads].pc = "idle"
     /\ \E s \in {"", "u1"} : StartUpload(s, FALSE, NoFile)
  \/ \E u \in Uploads : UploadValidate(u)
  \/ \E u \in Uploads : UploadPut(u)
  \/ \E s \in {"", "u1"} : StartPoll(s, 1)
  \/ \E p \in Polls : PollFindJob(p)
  \/ \E s \in {"", "u1"} : StartDownload(s, 1)
  \/ \E d \in Downloads : DownloadFindJob(d)
  \/ /\ rej.n < load.rej
     /\ \E s \in {"", "u1"}, body \in Bodies : RejectGenerate(s, body)

SpecUpload == InitUpload /\ [][NextUpload]_vars

(***************************************************************************)
(* SpecWriters: every handler that touches the database, for one user: a   *)
(* generate request, the delivery of the checkout event, and the reads of  *)
(* usage, job and download; Redis is not configured.                       *)
(***************************************************************************)
InitWriters ==
  /\ InitDb
  /\ load = [gen |-> MixJobs, hook |-> MixDeliveries, dl |-> MaxDownloads,
             poll |-> MaxPolls, rej |-> 0, evf |-> 0, up |-> 0, usage |-> MaxUsage,
             hrej |-> 0]
  /\ env = [redis |-> FALSE, blobToken |-> TRUE, webhookSecret |-> TRUE]
  /\ subs = [s \in SubIds |-> LinkedSub]

NextWriters ==
  \/ StartGenerate("u1")
  \/ \E j \in JobIds : RateLimitIncr(j)
  \/ \E j \in JobIds : QuotaFind(j)
  \/ \E j \in JobIds : QuotaCreate(j)
  \/ \E j \in JobIds : QuotaDecrement(j)
  \/ \E j \in JobIds : MarkQuotaExceeded(j)
  \/ \E j \in JobIds : MoveToProcessing(j)
  \/ \E j \in JobIds : FetchInput(j)
  \/ \E j \in JobIds : CallGemini(j)
  \/ \E j \in JobIds : MarkBlocked(j)
  \/ \E j \in JobIds : MarkModelError(j)
  \/ \E j \in JobIds : UploadOutput(j)
  \/ \E j \in JobIds : MarkCompleted(j)
  \/ \E j \in JobIds : CatchAll(j)
  \/ StartDelivery("evt_checkout")
  \/ HookStep
  \/ \E s \in {"", "u1"} : StartUsage(s)
  \/ \E r \in UsageReqs : UsageFindSub(r)
  \/ \E r \in UsageReqs : UsageQuotaFind(r)
  \/ \E r \in UsageReqs : UsageQuotaCreate(r)
  \/ StartPoll("u1", 1)
  \/ \E p \in Polls : PollFindJob(p)
  \/ StartDownload("u1", 1)
  \/ DlStep

SpecWriters == InitWriters /\ [][NextWriters]_vars

(***************************************************************************)
(* SpecWidget: the widget of user u1 and the server it talks to: each      *)
(* generate request of the widget is handled by POST /api/generate, each   *)
(* poll reads the job the server holds; Redis is not configured.           *)
(***************************************************************************)
InitWidget ==
  /\ InitDb
  /\ load = [gen |-> MaxJobs, hook |-> 0, dl |-> 0, poll |-> 0, rej |-> 0, evf |-> 0,
             up |-> 0, usage |-> 0, hrej |-> 0]
  /\ env = [redis |-> FALSE, blobToken |-> TRUE, webhookSecret |-> TRUE]
  /\ quota[<<"u1", 1>>] = NoRow
  /\ subs = [s \in SubIds |-> NoSub]

NextWidget ==
  \/ onSelectFile
  \/ onStart
  \/ \E f \in Flows : UploadReturns(f)
  \/ \E f \in Flows : GenerateFails(f)
  \/ /\ GenerateReceived < GenerateSent
     /\ StartGenerate("u1")
  \/ \E j \in JobIds : RateLimitIncr(j)
  \/ \E j \in JobIds : QuotaFind(j)
  \/ \E j \in JobIds : QuotaCreate(j)
  \/ \E j \in JobIds : QuotaDecrement(j)
  \/ \E j \in JobIds : MoveToProcessing(j)
  \/ \E j \in JobIds : FetchInput(j)
  \/ \E j \in JobIds : CallGemini(j)
  \/ \E j \in JobIds : MarkBlocked(j)
  \/ \E j \in JobIds : MarkModelError(j)
  \/ \E j \in JobIds : UploadOutput(j)
  \/ \E j \in JobIds : MarkCompleted(j)
  \/ \E j \in JobIds : CatchAll(j)
  \/ \E f \in Flows : GenerateReturns(f)
  \/ TimerFires
  \/ \E k \in TickIds : TickServed(k)
  \/ \E k \in TickIds : TickHandled(k)
  \/ onReset
  \/ Unmount

SpecWidget == InitWidget /\ [][NextWidget]_vars

(***************************************************************************)
(* Properties                                                              *)
(***************************************************************************)
StatusChange(j, from, to) == jobs[j].status = from /\ jobs'[j].status = to
EarlyReasons == {"RATE_LIMITED", "QUOTA_EXCEEDED"}

C2_TerminalIsFinal ==
  [][\A j \in JobIds : jobs[j].status \in Terminal => jobs'[j] = jobs[j]]_vars

\* C2 witness: a job that ended in the catch-all path after the model had
\* answered, its handler done, while another handler is at work.
C2_Witness ==
  \E j \in JobIds :
    /\ gpc[j] = "done"
    /\ jobs[j].blockedReason = "INPUT_OR_UNKNOWN_ERROR"
    /\ ghost[j].modelCalls = 1
    /\ \E h \in Deliveries : hook[h].pc = "hq_update"

\* C3: neither counter of any Quota row is ever below zero.
C3_QuotaNonNegative ==
  \A k \in Users \X Months : quota[k].free >= 0 /\ quota[k].paid >= 0

\* The step in which the handler of job j completes decrementQuota.
DecrementsNow(j) ==
  gpc[j] \in {"q_dec_paid", "q_dec_free"} /\ gpc'[j] = "processing"
RowOf(j) == <<jobs[j].user, gq[j].month>>

C5_NoLostDecrement ==
  [][\A k \in Users \X Months :
       quota[k].exists =>
         quota'[k].free + quota'[k].paid =
           quota[k].free + quota[k].paid
             - Cardinality({j \in JobIds : DecrementsNow(j) /\ RowOf(j) = k})]_vars

\* C5 witness: two requests read the same row value, both decremented, and
\* the row is two lower than what they read.
C5_Witness ==
  \E a, b \in JobIds :
    /\ a # b
    /\ gq[a].exists /\ gq[b].exists
    /\ gq[a].free = gq[b].free
    /\ ghost[a].decs = 1 /\ ghost[b].decs = 1
    /\ quota[<<jobs[a].user, gq[a].month>>].free = gq[a].free - 2

\* C6: a job is marked QUOTA_EXCEEDED only when the user's row of the current
\* month exists with freeRemaining = 0 and paidRemaining = 0 at that time.
C6_ExceededOnlyWhenZero ==
  [][\A j \in JobIds :
       (jobs'[j].blockedReason = "QUOTA_EXCEEDED" /\ jobs[j].blockedReason # "QUOTA_EXCEEDED")
         => LET r == quota[<<jobs[j].user, month>>] IN
              r.exists /\ r.free = 0 /\ r.paid = 0]_vars

\* C7 (as stated): a request made while the user's row has 0 / 0 ends FAILED
\* with QUOTA_EXCEEDED and the model is never invoked for it.
C7_ZeroQuotaYieldsExceeded ==
  \A j \in JobIds :
    (ghost[j].zeroAtCreate /\ gpc[j] = "done") =>
      /\ jobs[j].status = "FAILED"
      /\ jobs[j].blockedReason = "QUOTA_EXCEEDED"
      /\ ghost[j].modelCalls = 0

\* C7 (amended): a request whose quota check finds the row at 0 / 0 never
\* invokes the model, never becomes PROCESSING, COMPLETED or BLOCKED and ends
\* FAILED with QUOTA_EXCEEDED; a request the rate limiter rejects before the
\* quota check never invokes the model either and ends FAILED with
\* RATE_LIMITED.
C7_ZeroQuotaNeverCompletes ==
  \A j \in JobIds :
    /\ ghost[j].zeroAtCheck =>
         /\ ghost[j].modelCalls = 0
         /\ jobs[j].status \in {"QUEUED", "FAILED"}
         /\ gpc[j] = "done" =>
              jobs[j].status = "FAILED" /\ jobs[j].blockedReason = "QUOTA_EXCEEDED"
    /\ ghost[j].rlRejected =>
         /\ ghost[j].modelCalls = 0
         /\ ~ghost[j].zeroAtCheck
         /\ jobs[j].status \in {"QUEUED", "FAILED"}
         /\ gpc[j] = "done" =>
              jobs[j].status = "FAILED" /\ jobs[j].blockedReason = "RATE_LIMITED"

\* C7 witness: with the row at 0 / 0, one request failed on the quota check
\* and another was rejected by the rate limiter first.
C7_Witness ==
  \E a, b \in JobIds :
    /\ ghost[a].zeroAtCheck /\ gpc[a] = "done"
    /\ jobs[a].blockedReason = "QUOTA_EXCEEDED"
    /\ ghost[b].zeroAtCreate /\ ghost[b].rlRejected /\ gpc[b] = "done"
    /\ jobs[b].blockedReason = "RATE_LIMITED"

\* C8: for every Stripe event id, applyEntitlementsForSubscription runs at
\* most once and the Quota row is synced at most once, however many
\* deliveries of that id arrive, with or without Redis.
C8_WebhookIdempotent ==
  \A e \in EventIds : applied[e].runs <= 1 /\ applied[e].quotaUpdates <= 1

\* C8 witness: two deliveries of one event id; Redis did not stop the second
\* one, the WebhookEvent unique index did; the entitlements were applied once.
C8_Witness ==
  \E a, b \in Deliveries :
    /\ a # b
    /\ hook[a].ev = hook[b].ev
    /\ hook[a].res = "ok"
    /\ hook[b].res = "deduped"
    /\ applied[hook[a].ev].runs = 1
    /\ applied[hook[a].ev].quotaUpdates = 1

\* C9: a download that returns image bytes is watermarked iff the user's
\* watermarkExempt flag of the current month is false at the moment the
\* request looks it up; what the flag was when the job completed plays no part.
C9_WatermarkFromCurrentFlag ==
  [][\A d \in Downloads :
       (dl[d].pc = "exempt" /\ dl'[d].pc = "done") =>
         LET r == quota[<<dl[d].user, month>>]
             flag == r.exists /\ r.exempt
         IN /\ flag => dl'[d].res = "original"
            /\ ~flag => dl'[d].res = "watermarked"]_vars

\* C9 witness: a job completed while the user was not exempt is downloaded
\* without watermark after an entitlement sync set the flag.
C9_Witness ==
  \E d \in Downloads :
    /\ dl[d].res = "original"
    /\ jobs[dl[d].job].status = "COMPLETED"
    /\ ~ghost[dl[d].job].exemptAtCompletion

\* C10: when the checkout.session.completed delivery of a new customer (no
\* Subscription row before) with an active subscription of a paid tier has
\* been processed, the user's row of the month has paidRemaining = the
\* tier's monthly quota and watermarkExempt = true.
C10_CheckoutUnlocksPaid ==
  [][\A h \in Deliveries :
       LET e == hook[h].ev
           ev == StripeEvent(e)
           r == quota'[<<CustomerOwner(ev.customer), month>>]
       IN (/\ hook[h].pc # "done" /\ hook'[h].pc = "done" /\ hook'[h].res = "ok"
           /\ hook[h].newCustomer
           /\ ev.type = "checkout.session.completed"
           /\ hookTier(e) # "FREE")
          => /\ r.exists
             /\ r.paid = PLAN_DEFAULTS[hookTier(e)].monthlyQuota
             /\ r.exempt]_vars

\* The user's subscription is active on a paid tier, its entitlements were in
\* force in the month before the current one, and no webhook is being handled.
SubscribedSinceLastMonth(u) ==
  /\ month > 1
  /\ quota[<<u, month - 1>>].exists
  /\ quota[<<u, month - 1>>].exempt
  /\ \E s \in SubIds :
       /\ subs[s].exists /\ subs[s].userId = u
       /\ subs[s].status = "active" /\ subs[s].planTier # "FREE"
  /\ \A h \in Deliveries : hook[h].pc \in {"idle", "done"}

PaidTierOf(u) ==
  subs[CHOOSE s \in SubIds : subs[s].exists /\ subs[s].userId = u].planTier

SyncsNow(h) == hook[h].pc = "hq_update" /\ hook'[h].pc = "audit"
SyncedRowOf(h) == <<hook[h].user, hook[h].q.month>>

C13_AlwaysAnswersWithJob ==
  [][\A j \in JobIds :
       /\ (gpc[j] = "idle" /\ gpc'[j] # "idle")
            <=> (jobs[j].status = "NONE" /\ jobs'[j].status # "NONE")
       /\ (jobs[j].status = "NONE" /\ jobs'[j].status # "NONE")
            => (jobs'[j].status = "QUEUED" /\ jobs'[j].user # "")
       /\ (gpc[j] # "done" /\ gpc'[j] = "done")
            => (http'[j] = [status |-> 200, id |-> j] /\ jobs'[j].status # "NONE")
       /\ http'[j] # http[j] => (gpc[j] # "done" /\ gpc'[j] = "done")]_vars

\* C13 witness: one request was rate-limited and another failed in the upload
\* of the output after the model had answered; both were answered 200 with
\* their job's id.
C13_Witness ==
  \E a, b \in JobIds :
    /\ jobs[a].blockedReason = "RATE_LIMITED"
    /\ http[a] = [status |-> 200, id |-> a]
    /\ jobs[b].blockedReason = "INPUT_OR_UNKNOWN_ERROR"
    /\ ghost[b].modelCalls = 1 /\ ghost[b].uploads = 0
    /\ http[b] = [status |-> 200, id |-> b]

\* The step name the handler records when it writes a status.
stepOf(status) ==
  CASE status = "QUEUED" -> "queued"
    [] status = "PROCESSING" -> "processing"
    [] status = "FAILED" -> "failed"
    [] status = "BLOCKED" -> "call_gemini_safety_blocked"
    [] status = "COMPLETED" -> "completed"
    [] OTHER -> "none"

Trail(j) == {events[j][i] : i \in 1..Len(events[j])}
LastEvent(j) == IF events[j] = <<>> THEN "none" ELSE events[j][Len(events[j])]

\* C14 (as stated): the status a job holds has its GenerationEvent in the
\* job's trail, and once the handler has returned the last event of the trail
\* is the one of the job's final status.
C14_EveryTransitionAudited ==
  \A j \in JobIds :
    /\ jobs[j].status # "NONE" => stepOf(jobs[j].status) \in Trail(j)
    /\ gpc[j] = "done" => LastEvent(j) = stepOf(jobs[j].status)

\* C14 (amended): event writes are best-effort.  For a job none of whose
\* event writes failed, the status it holds has its event in the trail and
\* after the handler returned the last event is the one of the final status;
\* a failed event write leaves the trail one event short and changes neither
\* the status written nor the 200 response.
C14_AuditBestEffort ==
  \A j \in JobIds :
    /\ evFaults[j] = 0 =>
         /\ jobs[j].status # "NONE" => stepOf(jobs[j].status) \in Trail(j)
         /\ gpc[j] = "done" => LastEvent(j) = stepOf(jobs[j].status)
    /\ gpc[j] = "done" => (jobs[j].status \in Terminal /\ http[j].status = 200)
    /\ evFaults[j] <= MaxEventFaults

\* C14 witness: a job completed with its full trail, and another job whose
\* final event write failed: its handler returned, the status is terminal and
\* the trail does not end with the event of that status.
C14_Witness ==
  \E a, b \in JobIds :
    /\ gpc[a] = "done" /\ evFaults[a] = 0
    /\ jobs[a].status = "COMPLETED" /\ LastEvent(a) = "completed"
    /\ gpc[b] = "done" /\ evFaults[b] = 1
    /\ jobs[b].status \in Terminal
    /\ LastEvent(b) # stepOf(jobs[b].status)

FailedReasons ==
  {"RATE_LIMITED", "QUOTA_EXCEEDED", "MODEL_ERROR", "UPLOAD_NOT_CONFIGURED",
   "INPUT_OR_UNKNOWN_ERROR"}

\* C15: in every state, a job is BLOCKED iff its blockedReason is SAFETY, a
\* FAILED job has one of the five failure reasons, and a QUEUED, PROCESSING or
\* COMPLETED job has blockedReason null.
C15_ReasonMatchesStatus ==
  \A j \in JobIds :
    /\ jobs[j].status = "BLOCKED" <=> jobs[j].blockedReason = "SAFETY"
    /\ jobs[j].status = "FAILED" => jobs[j].blockedReason \in FailedReasons
    /\ jobs[j].status \in {"QUEUED", "PROCESSING", "COMPLETED"} =>
         jobs[j].blockedReason = "null"

\* C15 witness: a safety-blocked job next to a job that failed on a model
\* error, both handlers done.
C15_Witness ==
  \E a, b \in JobIds :
    /\ jobs[a].status = "BLOCKED" /\ jobs[a].blockedReason = "SAFETY"
    /\ jobs[b].status = "FAILED" /\ jobs[b].blockedReason = "MODEL_ERROR"
    /\ gpc[a] = "done" /\ gpc[b] = "done"

\* C16: the rate limiter fails open.  Without Redis credentials the handler
\* goes from the rate-limit check straight to the quota decrement; a Redis
\* call of rateLimitWindow that throws sends the handler to the quota
\* decrement as well; a request is rejected, and a job marked RATE_LIMITED,
\* only with Redis configured, no Redis error in that request and a count
\* above the limit.
C16_RateLimiterFailsOpen ==
  [][\A j \in JobIds :
       /\ (gpc[j] = "rl_incr" /\ gpc'[j] # "rl_incr" /\ ~env.redis)
            => (gpc'[j] = "q_find" /\ rl' = rl)
       /\ (~ghost[j].rlThrew /\ ghost'[j].rlThrew) => gpc'[j] = "q_find"
       /\ (gpc[j] # "rl_reject" /\ gpc'[j] = "rl_reject")
            => (env.redis /\ ~ghost'[j].rlThrew /\ gcount[j] > RateMax)
       /\ (jobs[j].blockedReason # "RATE_LIMITED" /\ jobs'[j].blockedReason = "RATE_LIMITED")
            => (env.redis /\ ~ghost[j].rlThrew)]_vars

\* C16 witness: INCR returned a count above the limit, the TTL call threw,
\* and the request went on: its quota was decremented.
C16_Witness ==
  \E j \in JobIds :
    /\ ghost[j].rlThrew
    /\ ghost[j].rlCount > RateMax
    /\ ghost[j].decs = 1
    /\ jobs[j].status = "PROCESSING"

\* The request of job j has passed the rate limiter.
PassedLimiter(j) ==
  /\ gpc[j] \notin {"idle", "rl_incr", "rl_expire", "rl_ttl", "rl_reject"}
  /\ jobs[j].blockedReason # "RATE_LIMITED"

\* C17: while Redis answers, the requests counted in one window get distinct
\* counts; a request passes only with a count of at most 10, so at most 10
\* pass per window; a request with a higher count never reaches the quota
\* decrement and ends FAILED with RATE_LIMITED.
C17_AtMostTenPerWindow ==
  /\ \A a, b \in JobIds :
       (a # b /\ ghost[a].rlCount > 0 /\ ghost[b].rlCount > 0 /\ ghost[a].rlWin = ghost[b].rlWin)
         => ghost[a].rlCount # ghost[b].rlCount
  /\ \A j \in JobIds :
       (ghost[j].rlCount > 0 /\ ~ghost[j].rlThrew) =>
         /\ PassedLimiter(j) => ghost[j].rlCount <= RateMax
         /\ ghost[j].rlCount > RateMax =>
              /\ ghost[j].decs = 0
              /\ gpc[j] \in {"rl_ttl", "rl_reject", "done"}
              /\ gpc[j] = "done" =>
                   (jobs[j].status = "FAILED" /\ jobs[j].blockedReason = "RATE_LIMITED")

\* C17 witness: in one window the request counted 10th passed and the one
\* counted 11th, concurrent with it, was marked RATE_LIMITED.
C17_Witness ==
  \E a, b \in JobIds :
    /\ ghost[a].rlWin = ghost[b].rlWin
    /\ ghost[a].rlCount = RateMax /\ ghost[a].decs = 1
    /\ gpc[a] # "done"
    /\ ghost[b].rlCount = RateMax + 1
    /\ jobs[b].blockedReason = "RATE_LIMITED"

\* What the handlers persist: the database tables and the Redis keys.
persisted == <<quota, jobs, events, subs, webhookEvents, auditLog, rl, locks>>

\* C18: a poll is answered 401 without session, 404 when the job row does not
\* exist, 403 when the job belongs to another user, and 200 with the job's
\* fields only when the session's user owns the job; no step of a poll
\* changes persisted state.
C18_PollOnlyForOwner ==
  [][\A p \in Polls :
       poll'[p] # poll[p] =>
         /\ persisted' = persisted
         /\ (poll'[p].pc = "done") =>
              LET job == jobs[poll'[p].job]
                  u == poll'[p].user
              IN /\ poll'[p].res = "401" <=> u = ""
                 /\ poll'[p].res = "404" <=> (u # "" /\ job.status = "NONE")
                 /\ poll'[p].res = "403" <=> (u # "" /\ job.status # "NONE" /\ job.user # u)
                 /\ poll'[p].res = "200" <=> (u # "" /\ job.status # "NONE" /\ job.user = u)
                 /\ poll'[p].body = IF poll'[p].res = "200" THEN job ELSE NoJob]_vars

\* C18 witness: another user polled a job its owner's handler had completed
\* and got 403 without any field of the job.
C18_Witness ==
  \E p \in Polls :
    /\ poll[p].res = "403"
    /\ poll[p].body = NoJob
    /\ jobs[poll[p].job].status = "COMPLETED"
    /\ jobs[poll[p].job].user # poll[p].user

\* C19: a download answers with image bytes only to the authenticated owner
\* of a COMPLETED job with an outputBlobUrl; without session it answers 401,
\* without job row 404, for another user's job 403, for a job not completed
\* 409, and in those four cases nothing was fetched from storage.
C19_BytesOnlyForCompletedOwnJob ==
  [][\A d \in Downloads :
       dl'[d] # dl[d] =>
         LET job == jobs[dl'[d].job]
             u == dl'[d].user
             ready == job.outputBlobUrl /\ job.status = "COMPLETED"
         IN /\ dl'[d].res \in {"original", "watermarked"}
                 => (u # "" /\ job.user = u /\ ready /\ dl'[d].fetched)
            /\ dl'[d].fetched => (u # "" /\ job.user = u /\ ready)
            /\ (dl[d].pc \in {"idle", "job_find"} /\ dl'[d].pc = "done") =>
                 /\ ~dl'[d].fetched
                 /\ dl'[d].res = "401" <=> u = ""
                 /\ dl'[d].res = "404" <=> (u # "" /\ job.status = "NONE")
                 /\ dl'[d].res = "403" <=> (u # "" /\ job.status # "NONE" /\ job.user # u)
                 /\ dl'[d].res = "409" <=>
                      (u # "" /\ job.status # "NONE" /\ job.user = u /\ ~ready)]_vars

\* C19 witness: the owner asked for the download while the job was still
\* PROCESSING and got 409, nothing fetched.
C19_Witness ==
  \E d \in Downloads :
    /\ dl[d].res = "409"
    /\ ~dl[d].fetched
    /\ dl[d].user = jobs[dl[d].job].user
    /\ jobs[dl[d].job].status = "PROCESSING"

\* C20: a generate request without session is answered 401 and one with a
\* body that BodySchema rejects 400; such a request creates no ImageJob and
\* no GenerationEvent, starts no handler, leaves the rate-limit counter and
\* the Quota rows as they are.
C20_RejectedHasNoEffect ==
  [][rej' # rej =>
       /\ rej'.status = 401 <=> rej'.user = ""
       /\ rej'.status = 400 <=> (rej'.user # "" /\ ~rej'.valid)
       /\ rej'.status \in {400, 401}
       /\ persisted' = persisted
       /\ gpc' = gpc]_vars

\* C20 witness: a request of a signed-in user with an invalid body was
\* answered 400 while a valid request of that user is being handled and the
\* user's window counts it; no second job exists.
C20_Witness ==
  /\ rej.n = 1 /\ rej.status = 400 /\ rej.user = "u1"
  /\ gpc[1] = "q_find"
  /\ ghost[1].rlCount = rl["u1"].count
  /\ \A j \in JobIds : j # 1 => jobs[j].status = "NONE"


\* C21: POST /api/upload-url answers 415 to a file whose type is not one of
\* the five allowed image types and 413 to a file of an allowed type larger
\* than 20 MiB, and in both cases nothing is written to object storage: such
\* a request never reaches put(), and the store holds exactly the objects of
\* the requests answered 200.
C21_UploadRejectsTypeAndSize ==
  /\ \A u \in Uploads :
       (up[u].pc # "idle" /\ up[u].file.present) =>
         /\ up[u].file.type \notin AllowedTypes =>
              /\ up[u].pc \in {"form", "done"}
              /\ ~up[u].stored
              /\ up[u].pc = "done" => up[u].res = 415
         /\ (up[u].file.type \in AllowedTypes /\ up[u].file.size > MaxUploadBytes) =>
              /\ up[u].pc \in {"form", "done"}
              /\ ~up[u].stored
              /\ up[u].pc = "done" => up[u].res = 413
  /\ blobs = Cardinality({u \in Uploads : up[u].stored})
  /\ \A u \in Uploads : up[u].stored => up[u].res = 200

\* A gif answered 415 and a jpeg of 20 MiB + 1 byte answered 413, nothing stored.
C21_Witness ==
  \E u, v \in Uploads :
    /\ up[u].pc = "done" /\ up[u].file.type = "image/gif" /\ up[u].res = 415
    /\ up[v].pc = "done" /\ up[v].file.type = "image/jpeg"
    /\ up[v].file.size = MaxUploadBytes + 1 /\ up[v].res = 413
    /\ blobs = 0

\* C22: upload, generate, job polling and download each refuse a request
\* without a session: it is answered 401, no blob is stored for it and no row
\* is created or read on its behalf.
C22_AllStepsNeedSession ==
  /\ \A u \in Uploads :
       (up[u].pc # "idle" /\ up[u].session = "") =>
         /\ up[u].pc = "done"
         /\ up[u].res = 401
         /\ ~up[u].stored
  /\ \A p \in Polls :
       (poll[p].pc # "idle" /\ poll[p].user = "") =>
         (poll[p].pc = "done" /\ poll[p].res = "401" /\ poll[p].body = NoJob)
  /\ \A d \in Downloads :
       (dl[d].pc # "idle" /\ dl[d].user = "") =>
         (dl[d].pc = "done" /\ dl[d].res = "401" /\ ~dl[d].fetched)
  /\ (rej.n > 0 /\ rej.user = "") => rej.status = 401

\* C23: the billing webhook acts only on verified events: a request without
\* the Stripe-Signature header is answered 400, one with a header 500 when the
\* signing secret is not configured and 400 when the signature does not
\* verify; answering it sets no idempotency key, creates no WebhookEvent row
\* and changes no Subscription, Quota or AuditLog row, and a delivery is
\* processed only when the secret is configured.
C23_OnlyVerifiedEventsAct ==
  [][/\ hookRej' # hookRej =>
          /\ hookRej'.sig = "absent" => hookRej'.status = 400
          /\ (hookRej'.sig # "absent" /\ ~env.webhookSecret) => hookRej'.status = 500
          /\ (hookRej'.sig = "bad" /\ env.webhookSecret) => hookRej'.status = 400
          /\ ~(hookRej'.sig = "good" /\ env.webhookSecret)
          /\ UNCHANGED <<locks, webhookEvents, subs, quota, auditLog, hook, applied>>
     /\ (\E h \in Deliveries : hook[h].pc = "idle" /\ hook'[h].pc # "idle") =>
          env.webhookSecret
     /\ ~env.webhookSecret =>
          UNCHANGED <<locks, webhookEvents, subs, quota, auditLog>>]_vars

\* A request with a bad signature was answered 400 while another delivery of
\* the checkout event was processed.
C23_Witness ==
  /\ hookRej.n = 1 /\ hookRej.sig = "bad" /\ hookRej.status = 400
  /\ webhookEvents["evt_checkout"] = "processed"
  /\ applied["evt_checkout"].quotaUpdates = 1

InactiveStatuses == {"canceled", "unpaid", "paused", "incomplete", "past_due"}
PriceIds == {PriceIdBasic, PriceIdPlus, PriceIdPro, "price_retired"}

QuotaWriters ==
  {c \in {"generate", "webhook", "usage"} :
     \/ c = "generate" /\ \E j \in JobIds : ghost[j].decs > 0
     \/ c = "webhook" /\ \E e \in EventIds : applied[e].quotaUpdates > 0
     \/ c = "usage" /\ \E r \in UsageReqs : usage[r].created}

GenerateStepNow == \E j \in JobIds : gpc'[j] # gpc[j]
WebhookStepNow == \E h \in Deliveries : hook'[h] # hook[h]
UsageStepNow == \E r \in UsageReqs : usage'[r] # usage[r]

\* C25 (as stated): ImageJob and GenerationEvent rows are written only by
\* the generate handler, Subscription and WebhookEvent rows only by the
\* billing webhook, the Quota table by one handler class only, and a step of
\* job poll, download or usage creates or changes no row.
C25_OneWriterPerTable ==
  [][/\ (jobs' # jobs \/ events' # events) => GenerateStepNow
     /\ (subs' # subs \/ webhookEvents' # webhookEvents) => WebhookStepNow
     /\ Cardinality(QuotaWriters') <= 1
     /\ (poll' # poll \/ dl' # dl \/ usage' # usage) =>
          UNCHANGED <<quota, jobs, events, subs, webhookEvents, auditLog>>]_vars

\* C25 (amended): ImageJob and GenerationEvent rows are written only by the
\* generate handler, Subscription, WebhookEvent and AuditLog rows only by the
\* billing webhook; Quota rows are written by three handlers: generate
\* (create, decrement), the webhook's entitlement sync (create, update) and
\* GET /api/usage, which creates the month's row with the FREE defaults when
\* the user has none, so that after its 200 the row exists; job poll and
\* download write nothing.
C25_WritersPerTable ==
  [][/\ (jobs' # jobs \/ events' # events) => GenerateStepNow
     /\ (subs' # subs \/ webhookEvents' # webhookEvents \/ auditLog' # auditLog) =>
          WebhookStepNow
     /\ quota' # quota =>
          \/ \E j \in JobIds : gpc[j] \in {"q_create", "q_dec_paid", "q_dec_free"}
                                /\ gpc'[j] # gpc[j]
          \/ \E h \in Deliveries : hook[h].pc \in {"hq_create", "hq_update"}
                                   /\ hook'[h] # hook[h]
          \/ \E r \in UsageReqs :
               /\ usage[r].pc = "q_create" /\ usage'[r].created
               /\ ~quota[<<usage[r].user, usage[r].month>>].exists
               /\ quota' = [quota EXCEPT ![<<usage[r].user, usage[r].month>>] =
                                          Row(FreeMonthlyQuota, 0, FALSE)]
     /\ UsageStepNow => UNCHANGED <<jobs, events, subs, webhookEvents, auditLog>>
     /\ \A r \in UsageReqs :
          usage'[r].res = 200 => quota'[<<usage'[r].user, usage'[r].month>>].exists
     /\ (poll' # poll \/ dl' # dl) =>
          UNCHANGED <<quota, jobs, events, subs, webhookEvents, auditLog>>]_vars

\* C25 witness: GET /api/usage has created the user's row of the month, the
\* generate request has decremented it and the checkout sync has updated it.
C25_Witness ==
  /\ QuotaWriters = {"generate", "webhook", "usage"}
  /\ \E p \in Polls : poll[p].res = "200"

\* The place of a recorded step in the chain of a generate request.
stepRank(step) ==
  CASE step = "queued" -> 1
    [] step = "processing" -> 2
    [] step = "download_input_start" -> 3
    [] step = "download_input_success" -> 4
    [] step = "call_gemini_start" -> 5
    [] step \in {"call_gemini_success", "call_gemini_safety_blocked"} -> 6
    [] step = "upload_output_start" -> 7
    [] step = "upload_output_success" -> 8
    [] step = "completed" -> 9
    [] OTHER -> 10

\* C27: the steps of a generate request happen in the order rate-limit check,
\* quota decrement, fetch input, call model, upload output, persist COMPLETED:
\* the recorded steps of a job are in that order; the quota is decremented
\* only for a request the limiter let pass; the input is fetched only after
\* the decrement; the model is called only after the input arrived, never for
\* a rate-limited request or one whose decrement failed; the output is
\* uploaded only after the model returned an image; COMPLETED is written only
\* after the upload succeeded.
C27_StepOrder ==
  \A j \in JobIds :
    /\ \A i, k \in 1..Len(events[j]) :
         i < k => stepRank(events[j][i]) < stepRank(events[j][k])
    /\ ghost[j].decs > 0 =>
         (~ghost[j].rlRejected /\ jobs[j].blockedReason # "RATE_LIMITED"
          /\ gpc[j] \notin {"idle", "rl_incr", "rl_expire", "rl_ttl", "rl_reject"})
    /\ "download_input_start" \in Trail(j) => ghost[j].decs = 1
    /\ ghost[j].modelCalls > 0 =>
         /\ ghost[j].decs = 1
         /\ "download_input_success" \in Trail(j)
         /\ jobs[j].blockedReason \notin EarlyReasons
    /\ jobs[j].blockedReason \in EarlyReasons =>
         (ghost[j].modelCalls = 0 /\ ghost[j].uploads = 0)
    /\ "upload_output_start" \in Trail(j) =>
         (ghost[j].modelCalls = 1 /\ "call_gemini_success" \in Trail(j))
    /\ ghost[j].uploads > 0 => "call_gemini_success" \in Trail(j)
    /\ jobs[j].status = "COMPLETED" =>
         (ghost[j].uploads = 1 /\ "upload_output_success" \in Trail(j))

\* C27 witness: one request went through the whole chain and completed,
\* another was rate-limited and never reached the quota or the model.
C27_Witness ==
  \E i, j \in JobIds :
    /\ jobs[i].status = "COMPLETED" /\ Len(events[i]) = 9
    /\ jobs[j].blockedReason = "RATE_LIMITED" /\ gpc[j] = "done"
    /\ ghost[j].decs = 0 /\ ghost[j].modelCalls = 0

\* C28: nothing is retried: for each job the quota is decremented at most
\* once, the model is invoked at most once and the output uploaded at most
\* once; once the handler has answered, or the job is FAILED or BLOCKED, no
\* step is taken for the job any more: its row, its trail and its history
\* stay as they are; a new request starts on a job id that had no row.
C28_NothingRetried ==
  [][\A j \in JobIds :
       /\ ghost'[j].decs <= 1
       /\ ghost'[j].modelCalls <= 1
       /\ ghost'[j].uploads <= 1
       /\ (gpc[j] = "done" \/ jobs[j].status \in {"FAILED", "BLOCKED"}) =>
            /\ gpc'[j] = "done"
            /\ jobs'[j] = jobs[j]
            /\ events'[j] = events[j]
            /\ ghost'[j] = ghost[j]
       /\ (gpc[j] = "idle" /\ gpc'[j] # "idle") => jobs[j] = NoJob]_vars

\* C28 witness: a request failed with a model error after one decrement and
\* one model call, and a later request of the same user, on a new job, was
\* completed.
C28_Witness ==
  \E i, j \in JobIds :
    /\ i < j
    /\ jobs[i].blockedReason = "MODEL_ERROR" /\ gpc[i] = "done"
    /\ ghost[i].decs = 1 /\ ghost[i].modelCalls = 1
    /\ jobs[j].status = "COMPLETED" /\ jobs[j].user = jobs[i].user

\* C29: a delivery of an event id whose WebhookEvent row exists already is
\* answered 200 deduped (by the Redis key or by the unique row) and changes no
\* Subscription, Quota, WebhookEvent or AuditLog row; this also holds when the
\* row says "failed", so a failed event stays failed and is never applied by
\* a later delivery.
C29_ReplaySwallowed ==
  [][/\ \A h \in Deliveries :
          (/\ hook[h].pc \in {"lock", "record"}
           /\ hook'[h] # hook[h]
           /\ webhookEvents[hook[h].ev] # "none") =>
            /\ hook'[h].pc \in {"record", "done"}
            /\ hook'[h].pc = "done" => hook'[h].res \in {"deduped", "deduped_redis"}
            /\ UNCHANGED <<subs, quota, webhookEvents, auditLog, applied>>
     /\ \A e \in EventIds :
          webhookEvents[e] = "failed" =>
            (webhookEvents'[e] = "failed" /\ applied'[e] = applied[e])]_vars

\* C29 witness: the first delivery of the checkout event failed (500, row
\* "failed", no quota update), and its redelivery was answered as deduped.
C29_Witness ==
  \E g, h \in Deliveries :
    /\ hook[g].pc = "done" /\ hook[g].ev = "evt_checkout" /\ hook[g].res = "500"
    /\ hook[h].pc = "done" /\ hook[h].ev = "evt_checkout"
    /\ hook[h].res \in {"deduped", "deduped_redis"}
    /\ webhookEvents["evt_checkout"] = "failed"
    /\ applied["evt_checkout"].quotaUpdates = 0

\* C30: the handler of a job answers only when the job's row is COMPLETED,
\* BLOCKED or FAILED (the terminal write and the response are one step of the
\* handler, no response leaves a job QUEUED or PROCESSING), and, every awaited
\* call returning, every job that was created becomes terminal.
C30_TerminalWhenAnswered ==
  /\ [][\A j \in JobIds :
          /\ gpc'[j] = "done" => jobs'[j].status \in Terminal
          /\ http'[j] # NoResponse => jobs'[j].status \in Terminal]_vars
  /\ \A j \in JobIds :
       (jobs[j].status \in {"QUEUED", "PROCESSING"}) ~> (jobs[j].status \in Terminal)

\* C30 witness: both requests were answered, one with its job FAILED before
\* it was ever PROCESSING (quota exceeded), one with its job COMPLETED.
C30_Witness ==
  \E i, j \in JobIds :
    /\ http[i].status = 200 /\ jobs[i].blockedReason = "QUOTA_EXCEEDED"
    /\ "processing" \notin Trail(i)
    /\ http[j].status = 200 /\ jobs[j].status = "COMPLETED"

\* C31: in every state a job is COMPLETED iff its outputBlobUrl is set, and
\* then its completedAt is set too; a job that is not COMPLETED has neither,
\* so the two conditions the download checks (outputBlobUrl present, status
\* COMPLETED) agree.
C31_CompletedIffOutputUrl ==
  \A j \in JobIds :
    /\ jobs[j].status = "COMPLETED" <=> jobs[j].outputBlobUrl
    /\ jobs[j].outputBlobUrl => jobs[j].completedAt
    /\ jobs[j].status # "COMPLETED" => ~jobs[j].completedAt
    /\ (~jobs[j].outputBlobUrl \/ jobs[j].status # "COMPLETED")
         <=> jobs[j].status # "COMPLETED"

\* C31 witness: one job is COMPLETED with its URL, another failed after its
\* output upload had started and carries no URL.
C31_Witness ==
  \E i, j \in JobIds :
    /\ jobs[i].status = "COMPLETED" /\ jobs[i].outputBlobUrl /\ jobs[i].completedAt
    /\ jobs[j].status = "FAILED" /\ "upload_output_start" \in Trail(j)
    /\ ~jobs[j].outputBlobUrl

\* The quota units the successful decrements have consumed, and the jobs that
\* reached PROCESSING.
UnitsConsumed == SumUpTo([j \in JobIds |-> ghost[j].decs], MaxJobs)
ReachedProcessing == {j \in JobIds : "processing" \in Trail(j)}
LateReasons == {"SAFETY", "MODEL_ERROR", "UPLOAD_NOT_CONFIGURED", "INPUT_OR_UNKNOWN_ERROR"}

\* C32: quota is never refunded: no step of a generate request raises a
\* counter of a Quota row; a successful decrement lowers the row's counters by
\* one in total; a job that ends BLOCKED or FAILED after the decrement keeps
\* its one decrement; and the number of jobs that reached PROCESSING equals
\* the number of units consumed, whenever no handler stands between its
\* decrement and its PROCESSING write.
C32_QuotaNeverRefunded ==
  [][/\ \A k \in Users \X Months :
          quota[k].exists =>
            (quota'[k].free <= quota[k].free /\ quota'[k].paid <= quota[k].paid)
     /\ \A j \in JobIds :
          /\ ghost'[j].decs # ghost[j].decs =>
               /\ ghost'[j].decs = ghost[j].decs + 1
               /\ quota'[RowOf(j)].free + quota'[RowOf(j)].paid
                    = quota[RowOf(j)].free + quota[RowOf(j)].paid - 1
          /\ (gpc'[j] = "done" /\ jobs'[j].blockedReason \in LateReasons) =>
               ghost'[j].decs = 1
     /\ Cardinality(ReachedProcessing') <= UnitsConsumed'
     /\ (\A j \in JobIds : gpc'[j] # "processing") =>
          Cardinality(ReachedProcessing') = UnitsConsumed']_vars

\* C32 witness: a job blocked for safety and a job failed with a model error,
\* both after their decrement; the row created with the free default holds two
\* units less.
C32_Witness ==
  \E i, j \in JobIds :
    /\ gpc[i] = "done" /\ jobs[i].blockedReason = "SAFETY"
    /\ gpc[j] = "done" /\ jobs[j].blockedReason = "MODEL_ERROR"
    /\ UnitsConsumed = 2
    /\ quota[<<"u1", 1>>].free = FreeMonthlyQuota - 2

\* C33: every rate-limit key present in Redis carries an expiry, so that its
\* window ends: a key with a count has a TTL unless the handler that made the
\* first INCR of the window is just about to call EXPIRE, also after an
\* EXPIRE call that threw.
C33_WindowAlwaysResets ==
  \A u \in Users :
    (/\ rl[u].count > 0
     /\ \A j \in JobIds : ~(gpc[j] = "rl_expire" /\ jobs[j].user = u))
      => rl[u].ttl

\* C34: in every state and for every Quota row, paidRemaining > 0 implies
\* watermarkExempt = true.
C34_PaidImpliesExempt ==
  \A k \in Users \X Months :
    (quota[k].exists /\ quota[k].paid > 0) => quota[k].exempt

\* C34 witness: after the checkout sync a generate request has taken a unit
\* from the paid quota; the row is still watermark exempt.
C34_Witness ==
  \E k \in Users \X Months :
    /\ quota[k].exists
    /\ quota[k].paid = Basic50Quota - 1
    /\ quota[k].exempt

\* The paidRemaining a sync to a tier writes.
paidOf(tier) == IF tier = "FREE" THEN 0 ELSE PLAN_DEFAULTS[tier].monthlyQuota

\* Rows of subscription s and of its user's month that both reflect event e.
ReflectsEvent(e, s, k) ==
  /\ subs[s].status = hookStatus(e)
  /\ subs[s].planTier = hookTier(e)
  /\ quota[k].paid = paidOf(hookTier(e))
  /\ quota[k].exempt = PLAN_DEFAULTS[hookTier(e)].watermarkExempt

HandlingTick(k, statuses) ==
  widget.ticks[k].res \in statuses /\ widget'.ticks[k] = NoTick

\* C36: the widget polls the job it started and stops on the first terminal
\* response: at most one interval is alive at any time and it is the one held
\* in pollRef; every poll sent is for the job of the live interval; handling
\* a COMPLETED, BLOCKED or FAILED response leaves no interval, handling any
\* other response leaves the interval running; Reset and unmount leave none.
C36_OnePollTimer ==
  /\ [](/\ Cardinality(widget.timers) <= 1
        /\ widget.timers = IF widget.pollRef = 0 THEN {} ELSE {widget.pollRef})
  /\ [][/\ \A k \in TickIds :
             /\ HandlingTick(k, Terminal) =>
                  widget'.timers = {} /\ widget'.pollRef = 0
             /\ HandlingTick(k, {"QUEUED", "PROCESSING", "error"}) =>
                  widget'.timers = widget.timers
             /\ (widget.ticks[k] = NoTick /\ widget'.ticks[k] # NoTick) =>
                  widget'.ticks[k] = [job |-> widget'.pollRef, res |-> "pending"]
        /\ widget'.resets # widget.resets => widget'.timers = {}
        /\ (widget.mounted /\ ~widget'.mounted) => widget'.timers = {}]_vars

\* Two jobs were polled, around a Reset, a terminal response was shown and no
\* interval is left.
C36_Witness ==
  /\ Cardinality(widget.claimed) = 2
  /\ widget.resets = 1
  /\ widget.shown # {}
  /\ widget.timers = {}
\* C37: once a poll has shown a terminal phase for a job, handling a further
\* response of a poll for that job (one that was in flight, or arrives late)
\* does not set the phase to queued or processing: the phase it leaves is
\* the one it found, or a terminal one.
C37_PhaseMonotonicPerJob ==
  [][\A k \in TickIds :
       (/\ HandlingTick(k, {"QUEUED", "PROCESSING", "error"} \cup Terminal)
        /\ widget.ticks[k].job \in widget.shown)
       => (widget'.phase = widget.phase \/ widget'.phase \in TerminalPhases)]_vars

\* A response for a job whose terminal phase was already shown has been
\* handled, and the widget shows a terminal phase.
C37_Witness ==
  /\ widget.late
  /\ widget.mounted
  /\ widget.jobId \in widget.shown
  /\ widget.phase \in TerminalPhases
\* C38: when a poll has shown the terminal phase of the job the widget is
\* on, busy is false, and with a file selected the Generate button is
\* enabled without a click on Reset.
C38_BusyEndsWithJob ==
  (/\ widget.mounted
   /\ widget.jobId \in widget.shown
   /\ widget.phase \in TerminalPhases)
  => (~widget.busy /\ (widget.file => generateEnabled))
====
